---- MODULE Spec2Model ----
(***************************************************************************)
(* Dual-arm monitor, pause/resume hand-over to managed processes and the   *)
(* follower joint-move pipeline of lumo-dashboard.                         *)
(*                                                                         *)
(* Every thread of the program is a process of the model: the poll loop of *)
(* each SingleArmMonitor ("loop"), the caller of pause()/stop() ("ctl"),   *)
(* the caller of get_status() ("status"), the HTTP handler of a joint move *)
(* and the handlers / drain threads of the process manager.  A step of the *)
(* model is one access to shared state or the begin / the end of one bus   *)
(* call, so a bus call can overlap with the steps of every other thread.   *)
(***************************************************************************)
EXTENDS Integers, Sequences, FiniteSets, TLC

\* ---------------------------------------------------------------- bounds
\* FeetechMotorsBus objects one monitor may construct in a behaviour.
MaxBus == 2
\* Subprocesses one ManagedProcess may launch in a behaviour.
MaxProcs == 2
\* Replacements of one role's monitor by set_ports in a behaviour; the model
\* follows the most recently retired object of a role.
MaxSwaps == 1

\* ------------------------------------------------------------- constants
Arms == {"leader", "follower"}
JOINT_NAMES ==
  <<"shoulder_pan", "shoulder_lift", "elbow_flex", "wrist_flex", "wrist_roll", "gripper">>
JointSet == {JOINT_NAMES[i] : i \in 1..Len(JOINT_NAMES)}
LEROBOT_AVAILABLE == TRUE
MAX_RES == 4095

\* Python's None for an optional number is the empty set, a number v is {v}.
None == {}
Some(v) == {v}
\* No bus object (self._arm = None); bus objects are numbered from 1.
NoBus == 0

\* Angles are integers counted in ticks of 1/(20*MAX_RES) degree, so that a
\* tenth of a degree and a calibrated half range are both whole numbers.
Unit == 20 * MAX_RES
Deg(d) == d * Unit
Tenth == Unit \div 10

Abs(x) == IF x < 0 THEN -x ELSE x

\* round(float(val), 1): to the nearest tenth of a degree, ties to even.
RoundTenth(v) ==
  LET q == v \div Tenth
      r == v % Tenth
  IN  IF 2 * r < Tenth THEN q * Tenth
      ELSE IF 2 * r > Tenth THEN (q + 1) * Tenth
      ELSE IF q % 2 = 0 THEN q * Tenth ELSE (q + 1) * Tenth

JointSample(p) == [pos |-> p, load |-> None]
\* _empty_joints()
EmptyJoints == [n \in JointSet |-> JointSample(None)]

\* What the test suite's mock bus returns for Present_Position (in degrees * 10).
CURRENT_POSITIONS ==
  [n \in JointSet |->
     CASE n = "shoulder_pan" -> 125
       [] n = "shoulder_lift" -> -300
       [] n = "elbow_flex" -> 450
       [] n = "wrist_flex" -> 0
       [] n = "wrist_roll" -> -900
       [] n = "gripper" -> 500]

\* A full Present_Position reading: the mock's positions shifted by d ticks.
FullRead(d) == [n \in JointSet |-> Some(CURRENT_POSITIONS[n] * Tenth + d)]
\* A reading in which joint j did not answer.
HoleRead(d, j) == [FullRead(d) EXCEPT ![j] = None]

\* The calibration file of the test suite (FAKE_CAL).
FAKE_CAL ==
  [n \in JointSet |->
     CASE n = "shoulder_pan" -> [range_min |-> 943, range_max |-> 3337]
       [] n = "shoulder_lift" -> [range_min |-> 775, range_max |-> 3266]
       [] n = "elbow_flex" -> [range_min |-> 890, range_max |-> 3081]
       [] n = "wrist_flex" -> [range_min |-> 652, range_max |-> 3222]
       [] n = "wrist_roll" -> [range_min |-> 0, range_max |-> 4095]
       [] n = "gripper" -> [range_min |-> 1925, range_max |-> 3343]]
\* No calibration file (or an empty one): no joint has an entry.
NoCal == [n \in {} |-> [range_min |-> 0, range_max |-> 0]]
\* A calibration file without the entry of joint j.
CalWithout(j) == [n \in JointSet \ {j} |-> FAKE_CAL[n]]
Calibrations == {FAKE_CAL, NoCal, CalWithout("shoulder_pan")}

\* Readings the bus hands to the poll loop.
MonReads == {FullRead(Tenth \div 4), HoleRead(0, "gripper")}

VARIABLES
  running,    \* SingleArmMonitor._running, per arm
  paused,     \* SingleArmMonitor._paused
  connected,  \* SingleArmMonitor._connected
  arm,        \* SingleArmMonitor._arm: NoBus or the number of a bus object
  joints,     \* SingleArmMonitor._joints
  lock,       \* SingleArmMonitor._lock: "free" or the thread that holds it
  nbus,       \* bus objects constructed so far for the arm's port
  open,       \* bus objects whose serial port is open (connect succeeded)
  pc,         \* pc[a][t]: where thread t of arm a stands
  tbus,       \* tbus[a][t]: the bus object a thread is calling / has read
  ret,        \* ret[a][t]: where _disconnect returns to
  lres,       \* the poll loop's local `joints` (None is <<>>)
  sconn,      \* get_status: the value of self._connected it has read
  status,     \* what the last get_status() returned (<<>> before the first)
  quiet,      \* history: pause() has returned and no resume()/stop() was called since it began
  quietCall,  \* history: the loop began a bus call while quiet
  cal,        \* the follower calibration file: joint -> range_min, range_max
  mpc,        \* where each joint-move handler stands
  mreq,       \* its JointMoveRequest
  mangle,     \* its local `angle` (clamped)
  mbus,       \* its local `bus`
  mgoal,      \* its local `goal`
  mlog,       \* history: the bus calls the request has made, in order
  mout,       \* what the handler returned or raised
  msaw,       \* history: the monitor state at the handler's offline guard
  proc,       \* ManagedProcess._proc per manager: 0 (None) or a process number
  alive,      \* the processes of each manager that have not exited
  nproc,      \* processes each manager has tried to launch
  onexit,     \* ManagedProcess._on_exit is set (to _arm_resume)
  plock,      \* ManagedProcess._lock: "free" or its holder
  dpc,        \* dpc[k][i]: where the drain thread started for process i stands
  dproc,      \* dproc[k][i]: the local `proc` of that drain thread
  hpc,        \* where the handler of a /processes request stands
  hk,         \* the manager that request is for
  hproc,      \* the local `proc` of ManagedProcess.stop()
  owed        \* history: a process has ended and no resume_all has begun since

monVars ==
  <<running, paused, connected, arm, joints, lock, nbus, open, pc, tbus, ret, lres,
    sconn, status, quiet, quietCall>>

moveVars == <<cal, mpc, mreq, mangle, mbus, mgoal, mlog, mout, msaw>>
procVars == <<proc, alive, nproc, onexit, plock, dpc, dproc, hpc, hk, hproc, owed>>

Threads == {"loop", "ctl", "status"}
\* Handler threads that serve POST /arm/follower/move.
Movers == {"m1", "m2"}

\* The result None of _read_joints.
NoJoints == <<>>

At(a, t, l) == pc[a][t] = l
Goto(a, t, l) == pc' = [pc EXCEPT ![a][t] = l]

\* Bus calls in progress: the labels at which a thread is inside a bus call.
InCallLabels == {"conn_call", "read_call", "d_call"}
InBusCall(a, t) == pc[a][t] \in InCallLabels

\* ------------------------------------------------------ SingleArmMonitor

\* __init__ followed by start(), as ArmDriver.__init__ leaves each monitor.
MonitorInit ==
  /\ running = [a \in Arms |-> TRUE]
  /\ paused = [a \in Arms |-> FALSE]
  /\ connected = [a \in Arms |-> FALSE]
  /\ arm = [a \in Arms |-> NoBus]
  /\ joints = [a \in Arms |-> EmptyJoints]
  /\ lock = [a \in Arms |-> "free"]
  /\ nbus = [a \in Arms |-> 0]
  /\ open = [a \in Arms |-> {}]
  /\ pc = [a \in Arms |-> [t \in Threads |-> IF t = "loop" THEN "top" ELSE "idle"]]
  /\ tbus = [a \in Arms |-> [t \in Threads |-> NoBus]]
  /\ ret = [a \in Arms |-> [t \in Threads |-> "idle"]]
  /\ lres = [a \in Arms |-> NoJoints]
  /\ sconn = [a \in Arms |-> FALSE]
  /\ status = [a \in Arms |-> <<>>]
  /\ quiet = [a \in Arms |-> FALSE]
  /\ quietCall = [a \in Arms |-> FALSE]

\* A thread begins a bus call; the history notes a call begun by the loop
\* between the return of pause() and the next resume()/stop().
NoteCall(a, t) ==
  quietCall' = [quietCall EXCEPT ![a] = @ \/ (t = "loop" /\ quiet[a])]

\* _loop: `while self._running:`
LoopTop(a) ==
  /\ At(a, "loop", "top")
  /\ Goto(a, "loop", IF running[a] THEN "chk_paused" ELSE "exit")
  /\ UNCHANGED <<running, paused, connected, arm, joints, lock, nbus, open, tbus, ret,
                 lres, sconn, status, quiet, quietCall>>

\* _loop: `if self._paused: time.sleep(0.5); continue`
LoopCheckPaused(a) ==
  /\ At(a, "loop", "chk_paused")
  /\ Goto(a, "loop", IF paused[a] THEN "sleep" ELSE "chk_conn")
  /\ UNCHANGED <<running, paused, connected, arm, joints, lock, nbus, open, tbus, ret,
                 lres, sconn, status, quiet, quietCall>>

\* _loop: `if not self._connected:` ... `self._connect()`; _connect builds a
\* new bus object and enters bus.connect(handshake=True).
LoopCheckConnected(a) ==
  /\ At(a, "loop", "chk_conn")
  /\ IF connected[a]
       THEN /\ Goto(a, "loop", "read_arm")
            /\ UNCHANGED <<nbus, tbus, quietCall>>
       ELSE IF ~LEROBOT_AVAILABLE
         THEN /\ Goto(a, "loop", "sleep")
              /\ UNCHANGED <<nbus, tbus, quietCall>>
         ELSE /\ nbus[a] < MaxBus
              /\ nbus' = [nbus EXCEPT ![a] = @ + 1]
              /\ tbus' = [tbus EXCEPT ![a]["loop"] = nbus[a] + 1]
              /\ NoteCall(a, "loop")
              /\ Goto(a, "loop", "conn_call")
  /\ UNCHANGED <<running, paused, connected, arm, joints, lock, open, ret, lres, sconn, status,
                 quiet>>

\* bus.connect returns: the port is open.
ConnectOk(a) ==
  /\ At(a, "loop", "conn_call")
  /\ open' = [open EXCEPT ![a] = @ \cup {tbus[a]["loop"]}]
  /\ Goto(a, "loop", "conn_setarm")
  /\ UNCHANGED <<running, paused, connected, arm, joints, lock, nbus, tbus, ret, lres,
                 sconn, status, quiet, quietCall>>

\* Faulty variant of ConnectFail: a failed connect ends the poll loop.
ConnectFailEndsLoop(a) ==
  /\ At(a, "loop", "conn_call")
  /\ tbus' = [tbus EXCEPT ![a]["loop"] = NoBus]
  /\ Goto(a, "loop", "exit")
  /\ UNCHANGED <<running, paused, connected, arm, joints, lock, nbus, open, ret, lres,
                 sconn, status, quiet, quietCall>>

\* bus.connect (or the set-up before it) raises.
ConnectFail(a) ==
  /\ At(a, "loop", "conn_call")
  /\ tbus' = [tbus EXCEPT ![a]["loop"] = NoBus]
  /\ Goto(a, "loop", "conn_fail_arm")
  /\ UNCHANGED <<running, paused, connected, arm, joints, lock, nbus, open, ret, lres,
                 sconn, status, quiet, quietCall>>

\* _connect: `self._arm = bus`
ConnectSetArm(a) ==
  /\ At(a, "loop", "conn_setarm")
  /\ arm' = [arm EXCEPT ![a] = tbus[a]["loop"]]
  /\ tbus' = [tbus EXCEPT ![a]["loop"] = NoBus]
  /\ Goto(a, "loop", "conn_setconn")
  /\ UNCHANGED <<running, paused, connected, joints, lock, nbus, open, ret, lres, sconn,
                 status, quiet, quietCall>>

\* _connect: `self._connected = True; return True`
ConnectSetConnected(a) ==
  /\ At(a, "loop", "conn_setconn")
  /\ connected' = [connected EXCEPT ![a] = TRUE]
  /\ Goto(a, "loop", "read_arm")
  /\ UNCHANGED <<running, paused, arm, joints, lock, nbus, open, tbus, ret, lres, sconn, status,
                 quiet, quietCall>>

\* _connect, except branch: `self._arm = None`
ConnectFailArm(a) ==
  /\ At(a, "loop", "conn_fail_arm")
  /\ arm' = [arm EXCEPT ![a] = NoBus]
  /\ Goto(a, "loop", "conn_fail_conn")
  /\ UNCHANGED <<running, paused, connected, joints, lock, nbus, open, tbus, ret, lres,
                 sconn, status, quiet, quietCall>>

\* _connect, except branch: `self._connected = False; return False`, then
\* the loop sleeps retry_delay.
ConnectFailConnected(a) ==
  /\ At(a, "loop", "conn_fail_conn")
  /\ connected' = [connected EXCEPT ![a] = FALSE]
  /\ Goto(a, "loop", "sleep")
  /\ UNCHANGED <<running, paused, arm, joints, lock, nbus, open, tbus, ret, lres, sconn, status,
                 quiet, quietCall>>

\* _read_joints: `arm = self._arm; if arm is None: return None`, else enter
\* arm.sync_read("Present_Position").
ReadArm(a) ==
  /\ At(a, "loop", "read_arm")
  /\ tbus' = [tbus EXCEPT ![a]["loop"] = arm[a]]
  /\ IF arm[a] = NoBus
       THEN /\ lres' = [lres EXCEPT ![a] = NoJoints]
            /\ Goto(a, "loop", "after_read")
            /\ UNCHANGED quietCall
       ELSE /\ NoteCall(a, "loop")
            /\ Goto(a, "loop", "read_call")
            /\ UNCHANGED lres
  /\ UNCHANGED <<running, paused, connected, arm, joints, lock, nbus, open, ret, sconn, status,
                 quiet>>

\* _read_joints: sync_read returned raw; every value is rounded to a tenth.
ReadJointsOk(a, raw) ==
  [n \in JointSet |->
     JointSample(IF raw[n] = None THEN None
                 ELSE Some(RoundTenth(CHOOSE v \in raw[n] : TRUE)))]

\* sync_read returns (only a bus whose port is open answers).
ReadOk(a) ==
  /\ At(a, "loop", "read_call")
  /\ tbus[a]["loop"] \in open[a]
  /\ \E raw \in MonReads : lres' = [lres EXCEPT ![a] = ReadJointsOk(a, raw)]
  /\ tbus' = [tbus EXCEPT ![a]["loop"] = NoBus]
  /\ Goto(a, "loop", "after_read")
  /\ UNCHANGED <<running, paused, connected, arm, joints, lock, nbus, open, ret, sconn,
                 status, quiet, quietCall>>

\* Faulty variant of ReadFail: the positions stored before are returned.
ReadFailStale(a) ==
  /\ At(a, "loop", "read_call")
  /\ lres' = [lres EXCEPT ![a] = joints[a]]
  /\ tbus' = [tbus EXCEPT ![a]["loop"] = NoBus]
  /\ Goto(a, "loop", "after_read")
  /\ UNCHANGED <<running, paused, connected, arm, joints, lock, nbus, open, ret, sconn,
                 status, quiet, quietCall>>

\* sync_read raises: _read_joints returns None.
ReadFail(a) ==
  /\ At(a, "loop", "read_call")
  /\ lres' = [lres EXCEPT ![a] = NoJoints]
  /\ tbus' = [tbus EXCEPT ![a]["loop"] = NoBus]
  /\ Goto(a, "loop", "after_read")
  /\ UNCHANGED <<running, paused, connected, arm, joints, lock, nbus, open, ret, sconn,
                 status, quiet, quietCall>>

\* Faulty variant of AfterRead: a failed read leaves the connected flag.
AfterReadKeepsConnected(a) ==
  /\ At(a, "loop", "after_read")
  /\ IF lres[a] = NoJoints
       THEN /\ ret' = [ret EXCEPT ![a]["loop"] = "fail_lock"]
            /\ Goto(a, "loop", "d_chk")
       ELSE /\ Goto(a, "loop", "publish")
            /\ UNCHANGED ret
  /\ UNCHANGED <<running, paused, connected, arm, joints, lock, nbus, open, tbus, lres,
                 sconn, status, quiet, quietCall>>

\* _loop: `if joints is None: self._connected = False` and into
\* _disconnect, else on to publish.
AfterRead(a) ==
  /\ At(a, "loop", "after_read")
  /\ IF lres[a] = NoJoints
       THEN /\ connected' = [connected EXCEPT ![a] = FALSE]
            /\ ret' = [ret EXCEPT ![a]["loop"] = "fail_lock"]
            /\ Goto(a, "loop", "d_chk")
       ELSE /\ Goto(a, "loop", "publish")
            /\ UNCHANGED <<connected, ret>>
  /\ UNCHANGED <<running, paused, arm, joints, lock, nbus, open, tbus, lres, sconn, status,
                 quiet, quietCall>>

\* _loop, read failed: `with self._lock:` is entered.
FailLock(a) ==
  /\ At(a, "loop", "fail_lock")
  /\ lock[a] = "free"
  /\ lock' = [lock EXCEPT ![a] = "loop"]
  /\ Goto(a, "loop", "fail_write")
  /\ UNCHANGED <<running, paused, connected, arm, joints, nbus, open, tbus, ret, lres,
                 sconn, status, quiet, quietCall>>

\* _loop, read failed: `self._joints = _empty_joints()` and the lock is left.
FailWrite(a) ==
  /\ At(a, "loop", "fail_write")
  /\ joints' = [joints EXCEPT ![a] = EmptyJoints]
  /\ lock' = [lock EXCEPT ![a] = "free"]
  /\ Goto(a, "loop", "sleep")
  /\ UNCHANGED <<running, paused, connected, arm, nbus, open, tbus, ret, lres, sconn, status,
                 quiet, quietCall>>

\* _loop, read succeeded: `with self._lock:` is entered.
PublishLock(a) ==
  /\ At(a, "loop", "publish")
  /\ lock[a] = "free"
  /\ lock' = [lock EXCEPT ![a] = "loop"]
  /\ Goto(a, "loop", "publish_write")
  /\ UNCHANGED <<running, paused, connected, arm, joints, nbus, open, tbus, ret, lres,
                 sconn, status, quiet, quietCall>>

\* Faulty variant of PublishWrite: the lock is kept after the map is stored.
PublishWriteKeepsLock(a) ==
  /\ At(a, "loop", "publish_write")
  /\ joints' = [joints EXCEPT ![a] = lres[a]]
  /\ lres' = [lres EXCEPT ![a] = NoJoints]
  /\ Goto(a, "loop", "sleep")
  /\ UNCHANGED <<running, paused, connected, arm, lock, nbus, open, tbus, ret, sconn, status,
                 quiet, quietCall>>

\* _loop, read succeeded: `self._joints = joints` and the lock is left.
PublishWrite(a) ==
  /\ At(a, "loop", "publish_write")
  /\ joints' = [joints EXCEPT ![a] = lres[a]]
  /\ lres' = [lres EXCEPT ![a] = NoJoints]
  /\ lock' = [lock EXCEPT ![a] = "free"]
  /\ Goto(a, "loop", "sleep")
  /\ UNCHANGED <<running, paused, connected, arm, nbus, open, tbus, ret, sconn, status,
                 quiet, quietCall>>

\* _loop: time.sleep(...) ends and the loop condition is evaluated again.
LoopSleep(a) ==
  /\ At(a, "loop", "sleep")
  /\ Goto(a, "loop", "top")
  /\ UNCHANGED <<running, paused, connected, arm, joints, lock, nbus, open, tbus, ret,
                 lres, sconn, status, quiet, quietCall>>

\* _disconnect: `if self._arm:`
DisconnectCheck(a, t) ==
  /\ At(a, t, "d_chk")
  /\ Goto(a, t, IF arm[a] # NoBus THEN "d_get" ELSE "d_clear")
  /\ UNCHANGED <<running, paused, connected, arm, joints, lock, nbus, open, tbus, ret,
                 lres, sconn, status, quiet, quietCall>>

\* _disconnect: `self._arm.disconnect(disable_torque=False)` reads self._arm
\* again; on None the AttributeError is swallowed by `except Exception`.
DisconnectGet(a, t) ==
  /\ At(a, t, "d_get")
  /\ tbus' = [tbus EXCEPT ![a][t] = arm[a]]
  /\ IF arm[a] # NoBus
       THEN /\ NoteCall(a, t)
            /\ Goto(a, t, "d_call")
       ELSE /\ UNCHANGED quietCall
            /\ Goto(a, t, "d_clear")
  /\ UNCHANGED <<running, paused, connected, arm, joints, lock, nbus, open, ret, lres,
                 sconn, status, quiet>>

\* bus.disconnect returns: the port is closed.
DisconnectOk(a, t) ==
  /\ At(a, t, "d_call")
  /\ open' = [open EXCEPT ![a] = @ \ {tbus[a][t]}]
  /\ tbus' = [tbus EXCEPT ![a][t] = NoBus]
  /\ Goto(a, t, "d_clear")
  /\ UNCHANGED <<running, paused, connected, arm, joints, lock, nbus, ret, lres, sconn,
                 status, quiet, quietCall>>

\* Faulty variant of DisconnectRaise: the exception leaves _disconnect.
DisconnectRaisePropagates(a, t) ==
  /\ At(a, t, "d_call")
  /\ tbus' = [tbus EXCEPT ![a][t] = NoBus]
  /\ Goto(a, t, ret[a][t])
  /\ UNCHANGED <<running, paused, connected, arm, joints, lock, nbus, open, ret, lres,
                 sconn, status, quiet, quietCall>>

\* bus.disconnect raises (swallowed): the port may be left open.
DisconnectRaise(a, t) ==
  /\ At(a, t, "d_call")
  /\ tbus' = [tbus EXCEPT ![a][t] = NoBus]
  /\ Goto(a, t, "d_clear")
  /\ UNCHANGED <<running, paused, connected, arm, joints, lock, nbus, open, ret, lres,
                 sconn, status, quiet, quietCall>>

\* _disconnect: `self._arm = None` and return to the caller.
DisconnectClear(a, t) ==
  /\ At(a, t, "d_clear")
  /\ arm' = [arm EXCEPT ![a] = NoBus]
  /\ Goto(a, t, ret[a][t])
  /\ UNCHANGED <<running, paused, connected, joints, lock, nbus, open, tbus, ret, lres,
                 sconn, status, quiet, quietCall>>

\* pause(): `self._paused = True`, then into _disconnect.
PauseFlag(a) ==
  /\ At(a, "ctl", "p_flag")
  /\ paused' = [paused EXCEPT ![a] = TRUE]
  /\ ret' = [ret EXCEPT ![a]["ctl"] = "p_lock"]
  /\ Goto(a, "ctl", "d_chk")
  /\ UNCHANGED <<running, connected, arm, joints, lock, nbus, open, tbus, lres, sconn,
                 status, quiet, quietCall>>

\* pause(): `with self._lock:` is entered.
PauseLock(a) ==
  /\ At(a, "ctl", "p_lock")
  /\ lock[a] = "free"
  /\ lock' = [lock EXCEPT ![a] = "ctl"]
  /\ Goto(a, "ctl", "p_write")
  /\ UNCHANGED <<running, paused, connected, arm, joints, nbus, open, tbus, ret, lres,
                 sconn, status, quiet, quietCall>>

\* pause(): `self._connected = False; self._joints = _empty_joints()`, the
\* lock is left and pause() returns.
PauseWrite(a) ==
  /\ At(a, "ctl", "p_write")
  /\ connected' = [connected EXCEPT ![a] = FALSE]
  /\ joints' = [joints EXCEPT ![a] = EmptyJoints]
  /\ lock' = [lock EXCEPT ![a] = "free"]
  /\ quiet' = [quiet EXCEPT ![a] = paused[a]]
  /\ quietCall' = [quietCall EXCEPT ![a] = FALSE]
  /\ Goto(a, "ctl", "idle")
  /\ UNCHANGED <<running, paused, arm, nbus, open, tbus, ret, lres, sconn, status>>

\* resume(): `self._paused = False`
ResumeEffect(a) ==
  /\ paused' = [paused EXCEPT ![a] = FALSE]
  /\ quiet' = [quiet EXCEPT ![a] = FALSE]

\* stop(): `self._running = False`
StopRunning(a) ==
  /\ At(a, "ctl", "s_run")
  /\ running' = [running EXCEPT ![a] = FALSE]
  /\ quiet' = [quiet EXCEPT ![a] = FALSE]
  /\ Goto(a, "ctl", "s_paused")
  /\ UNCHANGED <<paused, connected, arm, joints, lock, nbus, open, tbus, ret, lres, sconn,
                 status, quietCall>>

\* stop(): `self._paused = False`, then into _disconnect, which returns to
\* the caller of stop().
StopPaused(a) ==
  /\ At(a, "ctl", "s_paused")
  /\ paused' = [paused EXCEPT ![a] = FALSE]
  /\ ret' = [ret EXCEPT ![a]["ctl"] = "idle"]
  /\ Goto(a, "ctl", "d_chk")
  /\ UNCHANGED <<running, connected, arm, joints, lock, nbus, open, tbus, lres, sconn,
                 status, quiet, quietCall>>

\* get_status(): `with self._lock:` is entered.
StatusLock(a) ==
  /\ At(a, "status", "idle")
  /\ lock[a] = "free"
  /\ lock' = [lock EXCEPT ![a] = "status"]
  /\ Goto(a, "status", "st_conn")
  /\ UNCHANGED <<running, paused, connected, arm, joints, nbus, open, tbus, ret, lres,
                 sconn, status, quiet, quietCall>>

\* get_status(): `"connected": self._connected`
StatusConnected(a) ==
  /\ At(a, "status", "st_conn")
  /\ sconn' = [sconn EXCEPT ![a] = connected[a]]
  /\ Goto(a, "status", "st_joints")
  /\ UNCHANGED <<running, paused, connected, arm, joints, lock, nbus, open, tbus, ret,
                 lres, status, quiet, quietCall>>

\* Faulty variant of StatusJoints: one joint of the copy is from another map.
StatusJointsTorn(a) ==
  /\ At(a, "status", "st_joints")
  /\ status' = [status EXCEPT ![a] =
       <<[connected |-> sconn[a],
          joints |-> [joints[a] EXCEPT !["shoulder_pan"] = JointSample(Some(Tenth))]]>>]
  /\ sconn' = [sconn EXCEPT ![a] = FALSE]
  /\ lock' = [lock EXCEPT ![a] = "free"]
  /\ Goto(a, "status", "idle")
  /\ UNCHANGED <<running, paused, connected, arm, joints, nbus, open, tbus, ret, lres,
                 quiet, quietCall>>

\* get_status(): `"joints": dict(self._joints)`, the lock is left and the
\* snapshot is returned.
StatusJoints(a) ==
  /\ At(a, "status", "st_joints")
  /\ status' = [status EXCEPT ![a] = <<[connected |-> sconn[a], joints |-> joints[a]]>>]
  /\ sconn' = [sconn EXCEPT ![a] = FALSE]
  /\ lock' = [lock EXCEPT ![a] = "free"]
  /\ Goto(a, "status", "idle")
  /\ UNCHANGED <<running, paused, connected, arm, joints, nbus, open, tbus, ret, lres,
                 quiet, quietCall>>

\* The steps of one monitor's poll thread.
LoopStep(a) ==
  \/ LoopTop(a)
  \/ LoopCheckPaused(a)
  \/ LoopCheckConnected(a)
  \/ ConnectOk(a)
  \/ ConnectFail(a)
  \/ ConnectSetArm(a)
  \/ ConnectSetConnected(a)
  \/ ConnectFailArm(a)
  \/ ConnectFailConnected(a)
  \/ ReadArm(a)
  \/ ReadOk(a)
  \/ ReadFail(a)
  \/ AfterRead(a)
  \/ FailLock(a)
  \/ FailWrite(a)
  \/ PublishLock(a)
  \/ PublishWrite(a)
  \/ LoopSleep(a)
  \/ DisconnectCheck(a, "loop")
  \/ DisconnectGet(a, "loop")
  \/ DisconnectOk(a, "loop")
  \/ DisconnectRaise(a, "loop")
  \/ DisconnectClear(a, "loop")

\* The steps of pause() itself.
PauseStep(a) ==
  \/ PauseFlag(a)
  \/ PauseLock(a)
  \/ PauseWrite(a)

\* The steps of stop() itself.
StopStep(a) ==
  \/ StopRunning(a)
  \/ StopPaused(a)

\* _disconnect as called from pause() or stop().
CtlDisconnect(a) ==
  \/ DisconnectCheck(a, "ctl")
  \/ DisconnectGet(a, "ctl")
  \/ DisconnectOk(a, "ctl")
  \/ DisconnectRaise(a, "ctl")
  \/ DisconnectClear(a, "ctl")

\* The steps of a thread that is inside pause() or stop().
CtlStep(a) ==
  \/ PauseStep(a)
  \/ StopStep(a)
  \/ CtlDisconnect(a)

\* The steps of a thread that is inside get_status().
StatusStep(a) ==
  \/ StatusLock(a)
  \/ StatusConnected(a)
  \/ StatusJoints(a)

\* A caller enters pause() on a monitor.
CallPause(a) ==
  /\ At(a, "ctl", "idle")
  /\ Goto(a, "ctl", "p_flag")
  /\ UNCHANGED <<running, paused, connected, arm, joints, lock, nbus, open, tbus, ret,
                 lres, sconn, status, quiet, quietCall>>

\* Faulty variant of CallResume: resume() also drops the snapshot.
CallResumeClearsSnapshot(a) ==
  /\ ResumeEffect(a)
  /\ joints' = [joints EXCEPT ![a] = EmptyJoints]
  /\ UNCHANGED <<running, connected, arm, lock, nbus, open, pc, tbus, ret, lres,
                 sconn, status, quietCall>>

\* A caller runs resume() on a monitor.
CallResume(a) ==
  /\ ResumeEffect(a)
  /\ UNCHANGED <<running, connected, arm, joints, lock, nbus, open, pc, tbus, ret, lres,
                 sconn, status, quietCall>>

\* A caller enters stop() on a running monitor.
CallStop(a) ==
  /\ At(a, "ctl", "idle")
  /\ running[a]
  /\ Goto(a, "ctl", "s_run")
  /\ UNCHANGED <<running, paused, connected, arm, joints, lock, nbus, open, tbus, ret,
                 lres, sconn, status, quiet, quietCall>>

\* ------------------------------------------------- follower_joint_move

\* Faulty variant of GetJointLimits: the half range is rounded to a tenth of
\* a degree.
GetJointLimitsRounded(c) ==
  [n \in DOMAIN c |->
     IF n = "gripper"
       THEN [lo |-> Deg(0), hi |-> Deg(100)]
       ELSE LET half == (c[n].range_max - c[n].range_min) * ((360 * Unit) \div (2 * MAX_RES))
            IN  [lo |-> RoundTenth(-half), hi |-> RoundTenth(half)]]

\* _get_joint_limits(): {joint: (min, max)} from the calibration file, in
\* ticks; half = (range_max - range_min) / 2 * 360 / MAX_RES degrees.
GetJointLimits(c) ==
  [n \in DOMAIN c |->
     IF n = "gripper"
       THEN [lo |-> Deg(0), hi |-> Deg(100)]
       ELSE LET half == (c[n].range_max - c[n].range_min) * ((360 * Unit) \div (2 * MAX_RES))
            IN  [lo |-> -half, hi |-> half]]

Max(x, y) == IF x >= y THEN x ELSE y
Min(x, y) == IF x <= y THEN x ELSE y

\* Faulty variant of ClampAngle: only the upper bound is applied.
ClampAngleUpperOnly(c, joint, angle) ==
  LET limits == GetJointLimits(c)
  IN  IF joint \in DOMAIN limits THEN Min(limits[joint].hi, angle) ELSE angle

\* Faulty variant of ClampAngle: a joint without limits is held to +-180.
ClampAngleDefaultRange(c, joint, angle) ==
  LET limits == GetJointLimits(c)
  IN  IF joint \in DOMAIN limits
        THEN Max(limits[joint].lo, Min(limits[joint].hi, angle))
        ELSE Max(Deg(-180), Min(Deg(180), angle))

\* `if req.joint in limits: angle = max(lo, min(hi, angle))`
ClampAngle(c, joint, angle) ==
  LET limits == GetJointLimits(c)
  IN  IF joint \in DOMAIN limits
        THEN Max(limits[joint].lo, Min(limits[joint].hi, angle))
        ELSE angle

\* round(n / d) for d odd and positive (no ties).
RoundDiv(n, d) ==
  LET q == n \div d
      r == n % d
  IN  IF 2 * r < d THEN q ELSE q + 1

\* Faulty variant of SpeedToGoalVelocity: the map as its docstring words it,
\* 0 % -> 50 rising to 2000 at 99 %.
SpeedToGoalVelocityAscending(speed_pct) ==
  IF speed_pct >= 100 THEN 0
  ELSE Max(1, RoundDiv(50 * 99 + speed_pct * 1950, 99))

\* _speed_to_goal_velocity(speed_pct)
SpeedToGoalVelocity(speed_pct) ==
  IF speed_pct >= 100 THEN 0
  ELSE Max(1, RoundDiv(50 * 99 + (99 - speed_pct) * 1950, 99))

\* Faulty variant of ClampAccel: only the upper bound is applied.
ClampAccelUpperOnly(acceleration) == Min(254, acceleration)

\* `accel = max(0, min(254, req.acceleration))`
ClampAccel(acceleration) == Max(0, Min(254, acceleration))

\* bus.motors.keys(): the six motors _connect registers on every bus.
BusMotors == JointSet

\* Faulty variant of BuildGoal: only the target joint is written.
BuildGoalPartial(cur, joint, angle) == [n \in {joint} |-> angle]

\* `goal[name] = float(value)` for every motor, then `goal[req.joint] = angle`.
\* float() keeps the number; the target key is added when it is no motor.
BuildGoal(cur, joint, angle) ==
  [n \in BusMotors \cup {joint} |->
     IF n = joint THEN angle ELSE CHOOSE v \in cur[n] : TRUE]

\* `{name: value for name in joint_names}`
Uniform(v) == [n \in BusMotors |-> v]

NoArgs == <<>>
\* A bus call as the history keeps it: the method, the register, the values
\* passed, how it ended and what it returned.
BusCall(op, reg, vals) ==
  [op |-> op, reg |-> reg, vals |-> vals, st |-> "called", res |-> NoArgs]

\* The last call of the log is marked as returned / as having raised.
Returned(log, how) == [log EXCEPT ![Len(log)].st = how]
ReturnedWith(log, r) == [log EXCEPT ![Len(log)].st = "ok", ![Len(log)].res = r]

\* What the handler gives back: nothing yet, an HTTPException, or its result
\* (code 200 with the fields of the returned dict).
NoResponse == [code |-> 0]
HttpError(c) == [code |-> c]

MoveInit ==
  /\ mpc = [m \in Movers |-> "idle"]
  /\ mreq = [m \in Movers |-> <<>>]
  /\ mangle = [m \in Movers |-> 0]
  /\ mbus = [m \in Movers |-> NoBus]
  /\ mgoal = [m \in Movers |-> <<>>]
  /\ mlog = [m \in Movers |-> <<>>]
  /\ mout = [m \in Movers |-> NoResponse]
  /\ msaw = [m \in Movers |-> <<>>]

\* A request arrives: a handler thread is given a JointMoveRequest.
MoveRequest(m, Reqs) ==
  /\ mpc[m] = "idle"
  /\ \E r \in Reqs : mreq' = [mreq EXCEPT ![m] = r]
  /\ mpc' = [mpc EXCEPT ![m] = "g_conn"]
  /\ UNCHANGED <<cal, mangle, mbus, mgoal, mlog, mout, msaw, monVars, procVars>>

\* Faulty variant of GuardConnected: the connected flag is not tested.
GuardConnectedIgnored(m) ==
  /\ mpc[m] = "g_conn"
  /\ msaw' = [msaw EXCEPT ![m] = <<connected["follower"]>>]
  /\ mpc' = [mpc EXCEPT ![m] = "g_arm"]
  /\ UNCHANGED <<cal, mreq, mangle, mbus, mgoal, mlog, mout, monVars, procVars>>

\* `if not arm.follower._connected` -> HTTPException(503)
GuardConnected(m) ==
  /\ mpc[m] = "g_conn"
  /\ msaw' = [msaw EXCEPT ![m] = <<connected["follower"]>>]
  /\ IF ~connected["follower"]
       THEN /\ mout' = [mout EXCEPT ![m] = HttpError(503)]
            /\ mpc' = [mpc EXCEPT ![m] = "done"]
       ELSE /\ mpc' = [mpc EXCEPT ![m] = "g_arm"]
            /\ UNCHANGED mout
  /\ UNCHANGED <<cal, mreq, mangle, mbus, mgoal, mlog, monVars, procVars>>

\* `or arm.follower._arm is None` -> HTTPException(503)
GuardArm(m) ==
  /\ mpc[m] = "g_arm"
  /\ msaw' = [msaw EXCEPT ![m] = Append(@, arm["follower"] # NoBus)]
  /\ IF arm["follower"] = NoBus
       THEN /\ mout' = [mout EXCEPT ![m] = HttpError(503)]
            /\ mpc' = [mpc EXCEPT ![m] = "done"]
       ELSE /\ mpc' = [mpc EXCEPT ![m] = "clamp"]
            /\ UNCHANGED mout
  /\ UNCHANGED <<cal, mreq, mangle, mbus, mgoal, mlog, monVars, procVars>>

\* `limits = _get_joint_limits()` and the clamp of req.angle.
MoveClamp(m) ==
  /\ mpc[m] = "clamp"
  /\ mangle' = [mangle EXCEPT ![m] = ClampAngle(cal, mreq[m].joint, mreq[m].angle)]
  /\ mpc' = [mpc EXCEPT ![m] = "get_bus"]
  /\ UNCHANGED <<cal, mreq, mbus, mgoal, mlog, mout, msaw, monVars, procVars>>

\* `bus = arm.follower._arm; joint_names = list(bus.motors.keys())`: on None
\* the AttributeError is caught and becomes HTTPException(500).
MoveGetBus(m) ==
  /\ mpc[m] = "get_bus"
  /\ mbus' = [mbus EXCEPT ![m] = arm["follower"]]
  /\ IF arm["follower"] = NoBus
       THEN /\ mout' = [mout EXCEPT ![m] = HttpError(500)]
            /\ mpc' = [mpc EXCEPT ![m] = "done"]
       ELSE /\ mpc' = [mpc EXCEPT ![m] = "rd_go"]
            /\ UNCHANGED mout
  /\ UNCHANGED <<cal, mreq, mangle, mgoal, mlog, msaw, monVars, procVars>>

\* `cur = bus.sync_read("Present_Position")` is entered.
MoveReadCall(m) ==
  /\ mpc[m] = "rd_go"
  /\ mlog' = [mlog EXCEPT ![m] = Append(@, BusCall("sync_read", "Present_Position", NoArgs))]
  /\ mpc' = [mpc EXCEPT ![m] = "rd_call"]
  /\ UNCHANGED <<cal, mreq, mangle, mbus, mgoal, mout, msaw, monVars, procVars>>

\* Faulty variant of MoveReadOk: a missing position is taken as 0.
MoveReadOkFillsMissing(m, Reads) ==
  /\ mpc[m] = "rd_call"
  /\ mbus[m] \in open["follower"]
  /\ \E cur \in Reads :
     /\ mlog' = [mlog EXCEPT ![m] = ReturnedWith(@, cur)]
     /\ mgoal' = [mgoal EXCEPT ![m] =
          BuildGoal([n \in BusMotors |-> IF cur[n] = None THEN Some(0) ELSE cur[n]],
                    mreq[m].joint, mangle[m])]
     /\ mpc' = [mpc EXCEPT ![m] = "wv_go"]
     /\ UNCHANGED mout
  /\ UNCHANGED <<cal, mreq, mangle, mbus, msaw, monVars, procVars>>

\* Faulty variant of MoveReadOk: after the read the handler goes straight to
\* the Goal_Position write.
MoveReadOkToPosition(m, Reads) ==
  /\ mpc[m] = "rd_call"
  /\ mbus[m] \in open["follower"]
  /\ \E cur \in Reads :
     /\ mlog' = [mlog EXCEPT ![m] = ReturnedWith(@, cur)]
     /\ IF \E n \in BusMotors : cur[n] = None
          THEN /\ mout' = [mout EXCEPT ![m] = HttpError(500)]
               /\ mpc' = [mpc EXCEPT ![m] = "done"]
               /\ UNCHANGED mgoal
          ELSE /\ mgoal' = [mgoal EXCEPT ![m] = BuildGoal(cur, mreq[m].joint, mangle[m])]
               /\ mpc' = [mpc EXCEPT ![m] = "wp_go"]
               /\ UNCHANGED mout
  /\ UNCHANGED <<cal, mreq, mangle, mbus, msaw, monVars, procVars>>

\* sync_read returned cur; the goal map is built, a missing position raises
\* RuntimeError (caught: HTTPException(500)).
MoveReadOk(m, Reads) ==
  /\ mpc[m] = "rd_call"
  /\ mbus[m] \in open["follower"]
  /\ \E cur \in Reads :
     /\ mlog' = [mlog EXCEPT ![m] = ReturnedWith(@, cur)]
     /\ IF \E n \in BusMotors : cur[n] = None
          THEN /\ mout' = [mout EXCEPT ![m] = HttpError(500)]
               /\ mpc' = [mpc EXCEPT ![m] = "done"]
               /\ UNCHANGED mgoal
          ELSE /\ mgoal' = [mgoal EXCEPT ![m] = BuildGoal(cur, mreq[m].joint, mangle[m])]
               /\ mpc' = [mpc EXCEPT ![m] = "wv_go"]
               /\ UNCHANGED mout
  /\ UNCHANGED <<cal, mreq, mangle, mbus, msaw, monVars, procVars>>

\* `bus.sync_write("Goal_Velocity", vel_dict)` is entered.
MoveVelocityCall(m) ==
  /\ mpc[m] = "wv_go"
  /\ mlog' = [mlog EXCEPT ![m] =
       Append(@, BusCall("sync_write", "Goal_Velocity",
                         Uniform(SpeedToGoalVelocity(mreq[m].speed))))]
  /\ mpc' = [mpc EXCEPT ![m] = "wv_call"]
  /\ UNCHANGED <<cal, mreq, mangle, mbus, mgoal, mout, msaw, monVars, procVars>>

\* Faulty variant of MoveVelocityOk: the Acceleration write is skipped.
MoveVelocityOkSkipAccel(m) ==
  /\ mpc[m] = "wv_call"
  /\ mbus[m] \in open["follower"]
  /\ mlog' = [mlog EXCEPT ![m] = Returned(@, "ok")]
  /\ mpc' = [mpc EXCEPT ![m] = "wp_go"]
  /\ UNCHANGED <<cal, mreq, mangle, mbus, mgoal, mout, msaw, monVars, procVars>>

\* The Goal_Velocity write returned.
MoveVelocityOk(m) ==
  /\ mpc[m] = "wv_call"
  /\ mbus[m] \in open["follower"]
  /\ mlog' = [mlog EXCEPT ![m] = Returned(@, "ok")]
  /\ mpc' = [mpc EXCEPT ![m] = "wa_go"]
  /\ UNCHANGED <<cal, mreq, mangle, mbus, mgoal, mout, msaw, monVars, procVars>>

\* `bus.sync_write("Acceleration", accel_dict)` is entered.
MoveAccelCall(m) ==
  /\ mpc[m] = "wa_go"
  /\ mlog' = [mlog EXCEPT ![m] =
       Append(@, BusCall("sync_write", "Acceleration",
                         Uniform(ClampAccel(mreq[m].acceleration))))]
  /\ mpc' = [mpc EXCEPT ![m] = "wa_call"]
  /\ UNCHANGED <<cal, mreq, mangle, mbus, mgoal, mout, msaw, monVars, procVars>>

\* Faulty variant of MoveAccelOk: torque is enabled before the position is written.
MoveAccelOkTorqueFirst(m) ==
  /\ mpc[m] = "wa_call"
  /\ mbus[m] \in open["follower"]
  /\ mlog' = [mlog EXCEPT ![m] = Returned(@, "ok")]
  /\ mpc' = [mpc EXCEPT ![m] = "tq_go"]
  /\ UNCHANGED <<cal, mreq, mangle, mbus, mgoal, mout, msaw, monVars, procVars>>

\* The Acceleration write returned.
MoveAccelOk(m) ==
  /\ mpc[m] = "wa_call"
  /\ mbus[m] \in open["follower"]
  /\ mlog' = [mlog EXCEPT ![m] = Returned(@, "ok")]
  /\ mpc' = [mpc EXCEPT ![m] = "wp_go"]
  /\ UNCHANGED <<cal, mreq, mangle, mbus, mgoal, mout, msaw, monVars, procVars>>

\* `bus.sync_write("Goal_Position", goal)` is entered.
MovePositionCall(m) ==
  /\ mpc[m] = "wp_go"
  /\ mlog' = [mlog EXCEPT ![m] = Append(@, BusCall("sync_write", "Goal_Position", mgoal[m]))]
  /\ mpc' = [mpc EXCEPT ![m] = "wp_call"]
  /\ UNCHANGED <<cal, mreq, mangle, mbus, mgoal, mout, msaw, monVars, procVars>>

\* The Goal_Position write returned.
MovePositionOk(m) ==
  /\ mpc[m] = "wp_call"
  /\ mbus[m] \in open["follower"]
  /\ mlog' = [mlog EXCEPT ![m] = Returned(@, "ok")]
  /\ mpc' = [mpc EXCEPT ![m] = "tq_go"]
  /\ UNCHANGED <<cal, mreq, mangle, mbus, mgoal, mout, msaw, monVars, procVars>>

\* `bus.enable_torque()` is entered.
MoveTorqueCall(m) ==
  /\ mpc[m] = "tq_go"
  /\ mlog' = [mlog EXCEPT ![m] = Append(@, BusCall("enable_torque", "", NoArgs))]
  /\ mpc' = [mpc EXCEPT ![m] = "tq_call"]
  /\ UNCHANGED <<cal, mreq, mangle, mbus, mgoal, mout, msaw, monVars, procVars>>

\* enable_torque returned: the handler returns its result.
MoveTorqueOk(m) ==
  /\ mpc[m] = "tq_call"
  /\ mbus[m] \in open["follower"]
  /\ mlog' = [mlog EXCEPT ![m] = Returned(@, "ok")]
  /\ mout' = [mout EXCEPT ![m] =
       [code |-> 200, ok |-> TRUE, joint |-> mreq[m].joint, angle |-> mangle[m],
        clamped |-> mangle[m] # mreq[m].angle,
        goal_velocity |-> SpeedToGoalVelocity(mreq[m].speed),
        acceleration |-> ClampAccel(mreq[m].acceleration)]]
  /\ mpc' = [mpc EXCEPT ![m] = "done"]
  /\ UNCHANGED <<cal, mreq, mangle, mbus, mgoal, msaw, monVars, procVars>>

MoveCallLabels == {"rd_call", "wv_call", "wa_call", "wp_call", "tq_call"}

\* Faulty variant of MoveRaise: the handler also marks the follower offline.
MoveRaiseMarksOffline(m) ==
  /\ mpc[m] \in MoveCallLabels
  /\ mlog' = [mlog EXCEPT ![m] = Returned(@, "raised")]
  /\ mout' = [mout EXCEPT ![m] = HttpError(500)]
  /\ mpc' = [mpc EXCEPT ![m] = "done"]
  /\ connected' = [connected EXCEPT !["follower"] = FALSE]
  /\ UNCHANGED <<cal, mreq, mangle, mbus, mgoal, msaw, procVars>>
  /\ UNCHANGED <<running, paused, arm, joints, lock, nbus, open, pc, tbus, ret, lres,
                 sconn, status, quiet, quietCall>>

\* The bus call in progress raises: `except Exception` -> HTTPException(500).
MoveRaise(m) ==
  /\ mpc[m] \in MoveCallLabels
  /\ mlog' = [mlog EXCEPT ![m] = Returned(@, "raised")]
  /\ mout' = [mout EXCEPT ![m] = HttpError(500)]
  /\ mpc' = [mpc EXCEPT ![m] = "done"]
  /\ UNCHANGED <<cal, mreq, mangle, mbus, mgoal, msaw, monVars, procVars>>

\* The response is delivered; the handler thread is free again.
MoveReturn(m) ==
  /\ mpc[m] = "done"
  /\ mpc' = [mpc EXCEPT ![m] = "idle"]
  /\ mreq' = [mreq EXCEPT ![m] = <<>>]
  /\ mangle' = [mangle EXCEPT ![m] = 0]
  /\ mbus' = [mbus EXCEPT ![m] = NoBus]
  /\ mgoal' = [mgoal EXCEPT ![m] = <<>>]
  /\ mlog' = [mlog EXCEPT ![m] = <<>>]
  /\ mout' = [mout EXCEPT ![m] = NoResponse]
  /\ msaw' = [msaw EXCEPT ![m] = <<>>]
  /\ UNCHANGED <<cal, monVars, procVars>>

\* Requests and readings of the joint-move checks.
MoveJoints == {"shoulder_pan", "gripper", "elbow"}
MoveAngles == {Deg(-200), Deg(30), Deg(200)}
MoveSpeeds == {30, 100}
MoveAccels == {-5, 10, 300}
Req(j, a, s, c) == [joint |-> j, angle |-> a, speed |-> s, acceleration |-> c]
\* Every joint with every angle at the default speed and acceleration, and
\* every speed with every acceleration for one joint and angle.
MoveRequests ==
  {Req(j, a, 30, 10) : j \in MoveJoints, a \in MoveAngles}
    \cup {Req("gripper", Deg(30), s, c) : s \in MoveSpeeds, c \in MoveAccels}
MoveReads == {FullRead(Tenth \div 4), HoleRead(0, "wrist_roll")}

MoveStep(m, Reqs, Reads) ==
  \/ MoveRequest(m, Reqs)
  \/ GuardConnected(m)
  \/ GuardArm(m)
  \/ MoveClamp(m)
  \/ MoveGetBus(m)
  \/ MoveReadCall(m)
  \/ MoveReadOk(m, Reads)
  \/ MoveVelocityCall(m)
  \/ MoveVelocityOk(m)
  \/ MoveAccelCall(m)
  \/ MoveAccelOk(m)
  \/ MovePositionCall(m)
  \/ MovePositionOk(m)
  \/ MoveTorqueCall(m)
  \/ MoveTorqueOk(m)
  \/ MoveRaise(m)
  \/ MoveReturn(m)

\* ------------------------------------------------------ ManagedProcess

\* _teleop and _record
Managers == {"teleop", "record"}
ProcIds == 1..MaxProcs

ProcInit ==
  /\ proc = [k \in Managers |-> 0]
  /\ alive = [k \in Managers |-> {}]
  /\ nproc = [k \in Managers |-> 0]
  /\ onexit = [k \in Managers |-> FALSE]
  /\ plock = [k \in Managers |-> "free"]
  /\ dpc = [k \in Managers |-> [i \in ProcIds |-> "none"]]
  /\ dproc = [k \in Managers |-> [i \in ProcIds |-> 0]]
  /\ hpc = "idle"
  /\ hk = "teleop"
  /\ hproc = 0
  /\ owed = FALSE

\* What resume() leaves alone in the monitors.
ResumeFrame ==
  UNCHANGED <<running, connected, arm, joints, lock, nbus, open, pc, tbus, ret, lres,
              sconn, status, quietCall>>

\* What entering pause() on a monitor leaves alone.
EnterPauseFrame ==
  UNCHANGED <<running, paused, connected, arm, joints, lock, nbus, open, tbus, ret, lres,
              sconn, status, quiet, quietCall>>

\* POST /processes/teleop/start or /record/start arrives.
StartRequest(k) ==
  /\ hpc = "idle"
  /\ nproc[k] < MaxProcs
  /\ hpc' = "pa_l"
  /\ hk' = k
  /\ UNCHANGED <<proc, alive, nproc, onexit, plock, dpc, dproc, hproc, owed, monVars,
                 moveVars>>

\* pause_all(): `self.leader.pause()` is entered.
PauseAllLeader ==
  /\ hpc = "pa_l"
  /\ At("leader", "ctl", "idle")
  /\ Goto("leader", "ctl", "p_flag")
  /\ hpc' = "pa_f"
  /\ EnterPauseFrame
  /\ UNCHANGED <<proc, alive, nproc, onexit, plock, dpc, dproc, hk, hproc, owed, moveVars>>

\* pause_all(): leader.pause() has returned, `self.follower.pause()` is entered.
PauseAllFollower ==
  /\ hpc = "pa_f"
  /\ At("leader", "ctl", "idle")
  /\ Goto("follower", "ctl", "p_flag")
  /\ hpc' = "st_running"
  /\ EnterPauseFrame
  /\ UNCHANGED <<proc, alive, nproc, onexit, plock, dpc, dproc, hk, hproc, owed, moveVars>>

\* ManagedProcess.running
IsRunning(k) == proc[k] # 0 /\ proc[k] \in alive[k]

\* start(): pause_all() has returned; `if self.running: self.stop()`
StartCheckRunning ==
  /\ hpc = "st_running"
  /\ At("follower", "ctl", "idle")
  /\ plock[hk] = "free"
  /\ hpc' = IF IsRunning(hk) THEN "st_stop" ELSE "st_lock"
  /\ UNCHANGED <<proc, alive, nproc, onexit, plock, dpc, dproc, hk, hproc, owed, monVars,
                 moveVars>>

\* stop(): `with self._lock: proc = self._proc`
ManagedStopRead ==
  /\ hpc \in {"st_stop", "sp_stop"}
  /\ plock[hk] = "free"
  /\ hproc' = proc[hk]
  /\ hpc' = IF hpc = "st_stop" THEN "st_sig" ELSE "sp_sig"
  /\ UNCHANGED <<proc, alive, nproc, onexit, plock, dpc, dproc, hk, owed, monVars,
                 moveVars>>

\* stop(): `if proc and proc.poll() is None:` SIGINT, wait, kill on timeout:
\* the process has ended when stop() goes on.
ManagedStopSignal ==
  /\ hpc \in {"st_sig", "sp_sig"}
  /\ alive' = [alive EXCEPT ![hk] = @ \ {hproc}]
  /\ owed' = (owed \/ hproc \in alive[hk])
  /\ hproc' = 0
  /\ hpc' = IF hpc = "st_sig" THEN "st_lock" ELSE "sp_res_l"
  /\ UNCHANGED <<proc, nproc, onexit, plock, dpc, dproc, hk, monVars, moveVars>>

\* start(): `with self._lock: self._log.clear(); self._on_exit = on_exit`
StartLock ==
  /\ hpc = "st_lock"
  /\ plock[hk] = "free"
  /\ plock' = [plock EXCEPT ![hk] = "handler"]
  /\ onexit' = [onexit EXCEPT ![hk] = TRUE]
  /\ hpc' = "st_popen"
  /\ UNCHANGED <<proc, alive, nproc, dpc, dproc, hk, hproc, owed, monVars, moveVars>>

\* start(): Popen succeeds, the drain thread is started, the lock is left
\* and the handler returns.
StartPopenOk ==
  /\ hpc = "st_popen"
  /\ LET i == nproc[hk] + 1
     IN  /\ nproc' = [nproc EXCEPT ![hk] = i]
         /\ proc' = [proc EXCEPT ![hk] = i]
         /\ alive' = [alive EXCEPT ![hk] = @ \cup {i}]
         /\ dpc' = [dpc EXCEPT ![hk][i] = "init"]
  /\ plock' = [plock EXCEPT ![hk] = "free"]
  /\ hpc' = "idle"
  /\ hk' = "teleop"
  /\ UNCHANGED <<onexit, dproc, hproc, owed, monVars, moveVars>>

\* start(): Popen raises: `self._proc = None; self._on_exit = None`, then
\* on_exit() is called with the lock still held.
StartPopenFail ==
  /\ hpc = "st_popen"
  /\ nproc' = [nproc EXCEPT ![hk] = @ + 1]
  /\ owed' = TRUE
  /\ proc' = [proc EXCEPT ![hk] = 0]
  /\ onexit' = [onexit EXCEPT ![hk] = FALSE]
  /\ hpc' = "sf_res_l"
  /\ UNCHANGED <<alive, plock, dpc, dproc, hk, hproc, monVars, moveVars>>

\* POST /processes/teleop/stop or /record/stop arrives: `_teleop.stop()`
StopRequest(k) ==
  /\ hpc = "idle"
  /\ hpc' = "sp_stop"
  /\ hk' = k
  /\ UNCHANGED <<proc, alive, nproc, onexit, plock, dpc, dproc, hproc, owed, monVars,
                 moveVars>>

\* _arm_resume() in a handler: resume_all() runs `self.leader.resume()`
HandlerResumeLeader ==
  /\ hpc \in {"sf_res_l", "sp_res_l"}
  /\ ResumeEffect("leader")
  /\ owed' = FALSE
  /\ hpc' = IF hpc = "sf_res_l" THEN "sf_res_f" ELSE "sp_res_f"
  /\ ResumeFrame
  /\ UNCHANGED <<proc, alive, nproc, onexit, plock, dpc, dproc, hk, hproc, moveVars>>

\* _arm_resume() in a handler: `self.follower.resume()`; the handler returns
\* (start() leaves its lock and re-raises).
HandlerResumeFollower ==
  /\ hpc \in {"sf_res_f", "sp_res_f"}
  /\ ResumeEffect("follower")
  /\ plock' = IF hpc = "sf_res_f" THEN [plock EXCEPT ![hk] = "free"] ELSE plock
  /\ hpc' = "idle"
  /\ hk' = "teleop"
  /\ ResumeFrame
  /\ UNCHANGED <<proc, alive, nproc, onexit, dpc, dproc, hproc, owed, moveVars>>

\* A managed subprocess exits by itself (normally or by a crash).
ProcExit(k, i) ==
  /\ i \in alive[k]
  /\ alive' = [alive EXCEPT ![k] = @ \ {i}]
  /\ owed' = TRUE
  /\ UNCHANGED <<proc, nproc, onexit, plock, dpc, dproc, hpc, hk, hproc, monVars,
                 moveVars>>

\* _drain: `proc = self._proc; if not proc: return`
DrainInit(k, i) ==
  /\ dpc[k][i] = "init"
  /\ dproc' = [dproc EXCEPT ![k][i] = proc[k]]
  /\ dpc' = [dpc EXCEPT ![k][i] = IF proc[k] = 0 THEN "end" ELSE "reading"]
  /\ UNCHANGED <<proc, alive, nproc, onexit, plock, hpc, hk, hproc, owed, monVars,
                 moveVars>>

\* _drain: `for line in proc.stdout` ends when the process it reads has
\* exited, then `with self._lock: cb = self._on_exit; self._on_exit = None`
DrainTake(k, i) ==
  /\ dpc[k][i] = "reading"
  /\ dproc[k][i] \notin alive[k]
  /\ plock[k] = "free"
  /\ dproc' = [dproc EXCEPT ![k][i] = 0]
  /\ onexit' = [onexit EXCEPT ![k] = FALSE]
  /\ dpc' = [dpc EXCEPT ![k][i] = IF onexit[k] THEN "res_l" ELSE "end"]
  /\ UNCHANGED <<proc, alive, nproc, plock, hpc, hk, hproc, owed, monVars, moveVars>>

\* _drain: `cb()` is _arm_resume: resume_all() runs `self.leader.resume()`
DrainResumeLeader(k, i) ==
  /\ dpc[k][i] = "res_l"
  /\ ResumeEffect("leader")
  /\ owed' = FALSE
  /\ dpc' = [dpc EXCEPT ![k][i] = "res_f"]
  /\ ResumeFrame
  /\ UNCHANGED <<proc, alive, nproc, onexit, plock, dproc, hpc, hk, hproc, moveVars>>

\* _drain: resume_all() runs `self.follower.resume()`; the thread ends.
DrainResumeFollower(k, i) ==
  /\ dpc[k][i] = "res_f"
  /\ ResumeEffect("follower")
  /\ dpc' = [dpc EXCEPT ![k][i] = "end"]
  /\ ResumeFrame
  /\ UNCHANGED <<proc, alive, nproc, onexit, plock, dproc, hpc, hk, hproc, owed,
                 moveVars>>

\* The steps of the thread that serves a /processes request.
HandlerStep ==
  \/ PauseAllLeader
  \/ PauseAllFollower
  \/ StartCheckRunning
  \/ ManagedStopRead
  \/ ManagedStopSignal
  \/ StartLock
  \/ StartPopenOk
  \/ StartPopenFail
  \/ HandlerResumeLeader
  \/ HandlerResumeFollower

\* The steps of the drain thread of process i of manager k.
DrainStep(k, i) ==
  \/ DrainInit(k, i)
  \/ DrainTake(k, i)
  \/ DrainResumeLeader(k, i)
  \/ DrainResumeFollower(k, i)

\* ------------------------------------------------- port reconfiguration

VARIABLES
  port,       \* SingleArmMonitor.port of every monitor object
  inst,       \* which monitor object a slot holds (0: none)
  ninst,      \* monitor objects constructed so far
  gen,        \* how often ArmDriver.leader / .follower has been replaced
  config,     \* core.config._config
  spc,        \* where each handler of POST /config/ports stands
  srole,      \* the role ArmDriver.set_ports is dealing with
  sreq,       \* its PortConfig request
  sout,       \* what the handler returned or raised
  slog,       \* history: the stop / construct / start events of the request
  spre        \* history: port, object and configured port of each role when the request arrived

portVars == <<port, inst, ninst, gen, config, spc, srole, sreq, sout, slog, spre>>

\* Handler threads that serve POST /config/ports.
Setters == {"s1", "s2"}

\* The monitor object a role had before its last replacement lives on (its
\* thread is a daemon nobody joins); the model keeps it in a slot of its own.
Old(a) == IF a = "leader" THEN "leader_old" ELSE "follower_old"
Mons == Arms \cup {Old(a) : a \in Arms}

\* core.config._config at import
DefaultConfig == [leader_port |-> "/dev/ttyACM0", follower_port |-> "/dev/ttyACM1"]
PortOf(c, a) == IF a = "leader" THEN c.leader_port ELSE c.follower_port
NoPort == ""

PortConfig(l, f) == [leader_port |-> l, follower_port |-> f]
NoRequest == PortConfig(NoPort, NoPort)
NoPre == [a \in Arms |-> [port |-> NoPort, inst |-> 0, cfg |-> NoPort]]

\* ArmDriver.__init__: one monitor per role on the configured port.  The
\* handlers of /config/ports are idle.
PortsInit ==
  /\ port = [a \in Mons |-> IF a \in Arms THEN PortOf(DefaultConfig, a) ELSE NoPort]
  /\ inst = [a \in Mons |-> IF a = "leader" THEN 1 ELSE IF a = "follower" THEN 2 ELSE 0]
  /\ ninst = 2
  /\ gen = [a \in Arms |-> 0]
  /\ config = DefaultConfig
  /\ spc = [s \in Setters |-> "idle"]
  /\ srole = [s \in Setters |-> "leader"]
  /\ sreq = [s \in Setters |-> NoRequest]
  /\ sout = [s \in Setters |-> NoResponse]
  /\ slog = [s \in Setters |-> <<>>]
  /\ spre = [s \in Setters |-> NoPre]

\* The monitors of ArmDriver.__init__ with an unused slot for the object
\* each role will retire.
MonitorSlotsInit ==
  /\ running = [a \in Mons |-> a \in Arms]
  /\ paused = [a \in Mons |-> FALSE]
  /\ connected = [a \in Mons |-> FALSE]
  /\ arm = [a \in Mons |-> NoBus]
  /\ joints = [a \in Mons |-> EmptyJoints]
  /\ lock = [a \in Mons |-> "free"]
  /\ nbus = [a \in Mons |-> 0]
  /\ open = [a \in Mons |-> {}]
  /\ pc = [a \in Mons |->
           [t \in Threads |-> IF t # "loop" THEN "idle" ELSE IF a \in Arms THEN "top" ELSE "exit"]]
  /\ tbus = [a \in Mons |-> [t \in Threads |-> NoBus]]
  /\ ret = [a \in Mons |-> [t \in Threads |-> "idle"]]
  /\ lres = [a \in Mons |-> NoJoints]
  /\ sconn = [a \in Mons |-> FALSE]
  /\ status = [a \in Mons |-> <<>>]
  /\ quiet = [a \in Mons |-> FALSE]
  /\ quietCall = [a \in Mons |-> FALSE]

\* The events a request leaves in its history.
StopEvent(a, i) == [ev |-> "stop", role |-> a, inst |-> i, port |-> NoPort]
NewEvent(a, i, p) == [ev |-> "new", role |-> a, inst |-> i, port |-> p]
StartEvent(a, i) == [ev |-> "start", role |-> a, inst |-> i, port |-> NoPort]

\* POST /config/ports arrives with a PortConfig.
PortsRequest(s, Reqs) ==
  /\ spc[s] = "idle"
  /\ \E r \in Reqs : sreq' = [sreq EXCEPT ![s] = r]
  /\ spre' = [spre EXCEPT ![s] =
       [a \in Arms |-> [port |-> port[a], inst |-> inst[a], cfg |-> PortOf(config, a)]]]
  /\ spc' = [spc EXCEPT ![s] = "chk"]
  /\ UNCHANGED <<port, inst, ninst, gen, config, srole, sout, slog, monVars>>

\* Faulty variant of PortsValidate: the configuration is written before the
\* ports are compared.
PortsValidateLate(s) ==
  /\ spc[s] = "chk"
  /\ config' = sreq[s]
  /\ IF sreq[s].leader_port = sreq[s].follower_port
       THEN /\ sout' = [sout EXCEPT ![s] = HttpError(400)]
            /\ spc' = [spc EXCEPT ![s] = "done"]
       ELSE /\ spc' = [spc EXCEPT ![s] = "upd"]
            /\ UNCHANGED sout
  /\ UNCHANGED <<port, inst, ninst, gen, srole, sreq, slog, spre, monVars>>

\* api.config.set_ports: `if req.leader_port == req.follower_port:` raises
\* HTTPException(400).
PortsValidate(s) ==
  /\ spc[s] = "chk"
  /\ IF sreq[s].leader_port = sreq[s].follower_port
       THEN /\ sout' = [sout EXCEPT ![s] = HttpError(400)]
            /\ spc' = [spc EXCEPT ![s] = "done"]
       ELSE /\ spc' = [spc EXCEPT ![s] = "upd"]
            /\ UNCHANGED sout
  /\ UNCHANGED <<port, inst, ninst, gen, config, srole, sreq, slog, spre, monVars>>

\* `update_config({...})`, under the configuration lock, then into
\* ArmDriver.set_ports.
PortsUpdateConfig(s) ==
  /\ spc[s] = "upd"
  /\ config' = [config EXCEPT !.leader_port = sreq[s].leader_port,
                              !.follower_port = sreq[s].follower_port]
  /\ srole' = [srole EXCEPT ![s] = "leader"]
  /\ spc' = [spc EXCEPT ![s] = "cmp"]
  /\ UNCHANGED <<port, inst, ninst, gen, sreq, sout, slog, spre, monVars>>

\* Where set_ports goes on after it is done with a role.
AfterRole(s) ==
  /\ spc' = [spc EXCEPT ![s] = IF srole[s] = "leader" THEN "cmp" ELSE "ret"]
  /\ srole' = [srole EXCEPT ![s] = "follower"]

\* Faulty variant of PortsCompare: a role is replaced whatever its port.
PortsCompareAlways(s) ==
  /\ spc[s] = "cmp"
  /\ gen[srole[s]] < MaxSwaps
  /\ spc' = [spc EXCEPT ![s] = "stop"]
  /\ UNCHANGED <<port, inst, ninst, gen, config, srole, sreq, sout, slog, spre, monVars>>

\* set_ports: `if self.leader.port != leader_port:` (then the follower)
PortsCompare(s) ==
  /\ spc[s] = "cmp"
  /\ IF port[srole[s]] # PortOf(sreq[s], srole[s])
       THEN /\ gen[srole[s]] < MaxSwaps
            /\ spc' = [spc EXCEPT ![s] = "stop"]
            /\ UNCHANGED srole
       ELSE AfterRole(s)
  /\ UNCHANGED <<port, inst, ninst, gen, config, sreq, sout, slog, spre, monVars>>

\* set_ports: `self.leader.stop()` is entered.
PortsStop(s) ==
  /\ spc[s] = "stop"
  /\ At(srole[s], "ctl", "idle")
  /\ Goto(srole[s], "ctl", "s_run")
  /\ slog' = [slog EXCEPT ![s] = Append(@, StopEvent(srole[s], inst[srole[s]]))]
  /\ spc' = [spc EXCEPT ![s] = "new"]
  /\ UNCHANGED <<port, inst, ninst, gen, config, srole, sreq, sout, spre>>
  /\ UNCHANGED <<running, paused, connected, arm, joints, lock, nbus, open, tbus, ret,
                 lres, sconn, status, quiet, quietCall>>

\* The state of a monitor object after __init__.
Retire(v, a, fresh) == [v EXCEPT ![Old(a)] = v[a], ![a] = fresh]

\* set_ports: stop() has returned; `self.leader = SingleArmMonitor("leader",
\* leader_port, "leader")`.  The old object and its thread live on.
PortsReplace(s) ==
  LET a == srole[s]
  IN  /\ spc[s] = "new"
      /\ At(a, "ctl", "idle")
      /\ running' = Retire(running, a, FALSE)
      /\ paused' = Retire(paused, a, FALSE)
      /\ connected' = Retire(connected, a, FALSE)
      /\ arm' = Retire(arm, a, NoBus)
      /\ joints' = Retire(joints, a, EmptyJoints)
      /\ lock' = Retire(lock, a, "free")
      /\ nbus' = Retire(nbus, a, 0)
      /\ open' = Retire(open, a, {})
      /\ pc' = Retire(pc, a, [t \in Threads |-> IF t = "loop" THEN "new" ELSE "idle"])
      /\ tbus' = Retire(tbus, a, [t \in Threads |-> NoBus])
      /\ ret' = Retire(ret, a, [t \in Threads |-> "idle"])
      /\ lres' = Retire(lres, a, NoJoints)
      /\ sconn' = Retire(sconn, a, FALSE)
      /\ status' = Retire(status, a, <<>>)
      /\ quiet' = Retire(quiet, a, FALSE)
      /\ quietCall' = Retire(quietCall, a, FALSE)
      /\ port' = Retire(port, a, PortOf(sreq[s], a))
      /\ inst' = Retire(inst, a, ninst + 1)
      /\ ninst' = ninst + 1
      /\ gen' = [gen EXCEPT ![a] = @ + 1]
      /\ slog' = [slog EXCEPT ![s] = Append(@, NewEvent(a, ninst + 1, PortOf(sreq[s], a)))]
      /\ spc' = [spc EXCEPT ![s] = "start"]
      /\ UNCHANGED <<config, srole, sreq, sout, spre>>

\* set_ports: `self.leader.start()`: `if self._running: return`, else the
\* flags are set and the poll thread is started.
PortsStart(s) ==
  LET a == srole[s]
  IN  /\ spc[s] = "start"
      /\ IF running[a]
           THEN UNCHANGED <<running, paused, pc>>
           ELSE /\ running' = [running EXCEPT ![a] = TRUE]
                /\ paused' = [paused EXCEPT ![a] = FALSE]
                /\ Goto(a, "loop", "top")
      /\ slog' = [slog EXCEPT ![s] = Append(@, StartEvent(a, inst[a]))]
      /\ AfterRole(s)
      /\ UNCHANGED <<port, inst, ninst, gen, config, sreq, sout, spre>>
      /\ UNCHANGED <<connected, arm, joints, lock, nbus, open, tbus, ret, lres, sconn, status,
                     quiet, quietCall>>

\* api.config.set_ports: `return get_config()`
PortsReturn(s) ==
  /\ spc[s] = "ret"
  /\ sout' = [sout EXCEPT ![s] = [code |-> 200, config |-> config]]
  /\ spc' = [spc EXCEPT ![s] = "done"]
  /\ UNCHANGED <<port, inst, ninst, gen, config, srole, sreq, slog, spre, monVars>>

\* The response is delivered; the handler thread is free again.
PortsDone(s) ==
  /\ spc[s] = "done"
  /\ spc' = [spc EXCEPT ![s] = "idle"]
  /\ srole' = [srole EXCEPT ![s] = "leader"]
  /\ sreq' = [sreq EXCEPT ![s] = NoRequest]
  /\ sout' = [sout EXCEPT ![s] = NoResponse]
  /\ slog' = [slog EXCEPT ![s] = <<>>]
  /\ spre' = [spre EXCEPT ![s] = NoPre]
  /\ UNCHANGED <<port, inst, ninst, gen, config, monVars>>

\* The ports a request can name.
Ports == {"/dev/ttyACM0", "/dev/ttyACM1", "/dev/ttyUSB0"}
PortRequests == {PortConfig(l, f) : l \in Ports, f \in Ports}

\* The steps of a handler of POST /config/ports.
PortsStep(s, Reqs) ==
  \/ PortsRequest(s, Reqs)
  \/ PortsValidate(s)
  \/ PortsUpdateConfig(s)
  \/ PortsCompare(s)
  \/ PortsStop(s)
  \/ PortsReplace(s)
  \/ PortsStart(s)
  \/ PortsReturn(s)
  \/ PortsDone(s)

\* --------------------------------------- what the monitor's bus has seen

VARIABLES
  blog,       \* history: blog[a][t]: the bus calls thread t made in its current _connect, _read_joints or _disconnect
  bever,      \* history: every bus call the monitor of arm a has made
  bout,       \* history: bout[a][t]: how the bus call of that invocation ended
  failed,     \* history: the loop's read failed and `if not self._connected` was not evaluated since
  pub,        \* history: the maps that have been stored in self._joints
  lout,       \* what ArmDriver.get_status() last returned (<<>> before the first)
  gpos,       \* the follower's motors: the position each joint holds or was last sent to
  avail       \* the follower's serial port answers: connect and sync_read succeed

obsVars == <<blog, bever, bout, failed, pub, lout, gpos, avail>>
envVars == <<gpos, avail>>
busObsVars == <<blog, bever, bout, failed>>
snapObsVars == <<pub, lout>>

ObsInit ==
  /\ blog = [a \in Arms |-> [t \in Threads |-> <<>>]]
  /\ bever = [a \in Arms |-> {}]
  /\ bout = [a \in Arms |-> [t \in Threads |-> "none"]]
  /\ failed = [a \in Arms |-> FALSE]
  /\ pub = [a \in Arms |-> {joints[a]}]
  /\ lout = <<>>
  /\ gpos = [n \in JointSet |-> CURRENT_POSITIONS[n] * Tenth]
  /\ avail = TRUE

\* A call on the monitor's bus with its argument as written in the source.
MonCall(op, arg) == [op |-> op, arg |-> arg]

\* Faulty variant of MonitorCall: the connect is made without handshake.
MonitorCallNoHandshake(l, l2) ==
  IF l2 = "conn_call" /\ l # "conn_call" THEN {MonCall("connect", "handshake=False")}
  ELSE IF l2 = "read_call" /\ l # "read_call" THEN {MonCall("sync_read", "Present_Position")}
  ELSE IF l2 = "d_call" /\ l # "d_call" THEN {MonCall("disconnect", "disable_torque=False")}
  ELSE {}

\* The bus call a thread enters when it goes from label l to label l2:
\* `bus.connect(handshake=True)`, `arm.sync_read("Present_Position")`,
\* `self._arm.disconnect(disable_torque=False)`, or none.
MonitorCall(l, l2) ==
  IF l2 = "conn_call" /\ l # "conn_call" THEN {MonCall("connect", "handshake=True")}
  ELSE IF l2 = "read_call" /\ l # "read_call" THEN {MonCall("sync_read", "Present_Position")}
  ELSE IF l2 = "d_call" /\ l # "d_call" THEN {MonCall("disconnect", "disable_torque=False")}
  ELSE {}

\* The step enters _connect, _read_joints or _disconnect.
Enters(l, l2) ==
  \/ l = "chk_conn" /\ l2 = "conn_call"
  \/ l = "read_arm"
  \/ l2 = "d_chk" /\ l # "d_chk"

\* The bus calls of the step thread t of arm a takes are noted; `out` is
\* "ok" or "raised" when the step is the end of a bus call, else "none".
ObserveBus(a, t, out) ==
  LET l == pc[a][t]
      l2 == pc'[a][t]
      call == MonitorCall(l, l2)
      base == IF Enters(l, l2) THEN <<>> ELSE blog[a][t]
  IN  /\ blog' = [blog EXCEPT ![a][t] =
                    IF call = {} THEN base ELSE Append(base, CHOOSE c \in call : TRUE)]
      /\ bever' = [bever EXCEPT ![a] = @ \cup call]
      /\ bout' = [bout EXCEPT ![a][t] =
                    IF out # "none" THEN out ELSE IF Enters(l, l2) THEN "none" ELSE @]
      /\ failed' = [failed EXCEPT ![a] =
                      IF t # "loop" THEN @
                      ELSE IF l = "after_read" /\ l2 = "d_chk" THEN TRUE
                      ELSE IF l = "chk_conn" /\ l2 # "chk_conn" THEN FALSE
                      ELSE @]

\* Faulty variant of LegacyStatus: the message does not depend on the flag.
LegacyStatusAlwaysOk(fs) ==
  [connected |-> fs.connected, message |-> "OK", joints |-> fs.joints]

\* ArmDriver.get_status(): the follower's snapshot under the single-arm shape.
LegacyStatus(fs) ==
  [connected |-> fs.connected,
   message |-> IF ~fs.connected THEN "Arm not connected" ELSE "OK",
   joints |-> fs.joints]

\* The maps stored in self._joints are noted, and what ArmDriver.get_status()
\* makes of the follower's snapshot when get_status() of the monitor returns.
ObserveSnap(a, t) ==
  /\ pub' = [pub EXCEPT ![a] = @ \cup {joints'[a]}]
  /\ lout' = IF a = "follower" /\ t = "status" /\ At(a, "status", "st_joints")
               THEN <<LegacyStatus(status'[a][1])>>
               ELSE lout

\* ------------------------------------- calibration query, driver stubs

VARIABLES
  calout,     \* what GET /arm/calibration last returned for the follower
  dout,       \* what the last of POST /arm/move, /arm/home, /arm/stop returned
  dlog        \* history: the bus calls that operation made

apiVars == <<calout, dout, dlog>>

NoCalibration == <<>>

ApiInit ==
  /\ calout = NoCalibration
  /\ dout = NoResponse
  /\ dlog = <<>>

\* Faulty variant of ArmCalibration: the limits are reported unrounded.
ArmCalibrationUnrounded(c) ==
  [n \in DOMAIN c |->
     IF n = "gripper"
       THEN [min |-> Deg(0), max |-> Deg(100), unit |-> "%"]
       ELSE LET half == (c[n].range_max - c[n].range_min) * ((360 * Unit) \div (2 * MAX_RES))
            IN  [min |-> -half, max |-> half, unit |-> "deg"]]

\* arm_calibration(), the follower's part: min and max per joint, rounded to
\* one decimal place; the gripper is 0..100 %.
ArmCalibration(c) ==
  [n \in DOMAIN c |->
     IF n = "gripper"
       THEN [min |-> Deg(0), max |-> Deg(100), unit |-> "%"]
       ELSE LET half == (c[n].range_max - c[n].range_min) * ((360 * Unit) \div (2 * MAX_RES))
            IN  [min |-> RoundTenth(-half), max |-> RoundTenth(half), unit |-> "deg"]]

\* GET /arm/calibration is served.
CalibrationQuery ==
  /\ calout' = ArmCalibration(cal)
  /\ UNCHANGED <<dout, dlog, monVars, moveVars, procVars, portVars, obsVars>>

\* The result dicts of the driver's stubs.
StubResult(ok, text) == [code |-> 200, ok |-> ok, text |-> text]

\* POST /arm/move: ArmDriver.move drops its arguments and returns.
ArmMove ==
  /\ dout' = StubResult(FALSE, "Move not implemented in monitor mode")
  /\ dlog' = <<>>
  /\ UNCHANGED <<calout, monVars, moveVars, procVars, portVars, obsVars>>

\* POST /arm/home: ArmDriver.home
ArmHome ==
  /\ dout' = StubResult(FALSE, "Home not implemented in monitor mode")
  /\ dlog' = <<>>
  /\ UNCHANGED <<calout, monVars, moveVars, procVars, portVars, obsVars>>

\* POST /arm/stop: ArmDriver.stop
ArmStop ==
  /\ dout' = StubResult(TRUE, "Stop acknowledged")
  /\ dlog' = <<>>
  /\ UNCHANGED <<calout, monVars, moveVars, procVars, portVars, obsVars>>

vars == <<monVars, moveVars, procVars, portVars, apiVars, obsVars>>

\* The follower monitor alone: its poll loop and callers of pause(),
\* resume() and stop().
MonNext ==
  \/ LoopStep("follower") /\ UNCHANGED <<moveVars, procVars, portVars, apiVars, obsVars>>
  \/ CtlStep("follower") /\ UNCHANGED <<moveVars, procVars, portVars, apiVars, obsVars>>
  \/ CallPause("follower") /\ UNCHANGED <<moveVars, procVars, portVars, apiVars, obsVars>>
  \/ CallResume("follower") /\ UNCHANGED <<moveVars, procVars, portVars, apiVars, obsVars>>
  \/ CallStop("follower") /\ UNCHANGED <<moveVars, procVars, portVars, apiVars, obsVars>>

MonInit == MonitorInit /\ MoveInit /\ ProcInit /\ PortsInit /\ ApiInit /\ ObsInit /\ cal = FAKE_CAL

SpecMon == MonInit /\ [][MonNext]_vars

\* The follower monitor with a thread that calls get_status().
StatusNext ==
  \/ MonNext
  \/ StatusStep("follower") /\ UNCHANGED <<moveVars, procVars, portVars, apiVars, obsVars>>

SpecStatus == MonInit /\ [][StatusNext]_vars

\* The joint-move handler beside the follower's poll loop.
MoveNext ==
  \/ LoopStep("follower") /\ UNCHANGED <<moveVars, procVars, portVars, apiVars, obsVars>>
  \/ MoveStep("m1", MoveRequests, MoveReads) /\ UNCHANGED <<portVars, apiVars, obsVars>>

MoveSpecInit == MonitorInit /\ MoveInit /\ ProcInit /\ PortsInit /\ ApiInit /\ ObsInit /\ cal \in Calibrations

SpecMove == MoveSpecInit /\ [][MoveNext]_vars

\* The process manager with both monitors: requests to start and stop
\* teleop and record, the managed processes and their drain threads.
ProcNext ==
  \/ \E a \in Arms : PauseStep(a) /\ UNCHANGED <<moveVars, procVars, portVars, apiVars, obsVars>>
  \/ \E a \in Arms : CtlDisconnect(a) /\ UNCHANGED <<moveVars, procVars, portVars, apiVars, obsVars>>
  \/ (\E k \in Managers : StartRequest(k)) /\ UNCHANGED <<portVars, apiVars, obsVars>>
  \/ (\E k \in Managers : StopRequest(k)) /\ UNCHANGED <<portVars, apiVars, obsVars>>
  \/ HandlerStep /\ UNCHANGED <<portVars, apiVars, obsVars>>
  \/ (\E k \in Managers, i \in ProcIds : ProcExit(k, i)) /\ UNCHANGED <<portVars, apiVars, obsVars>>
  \/ (\E k \in Managers, i \in ProcIds : DrainStep(k, i)) /\ UNCHANGED <<portVars, apiVars, obsVars>>

\* Both monitors connected and between two polls, each with a published
\* reading: the state in which a request to start teleop or record finds
\* a healthy system.
ConnectedInit ==
  /\ running = [a \in Arms |-> TRUE]
  /\ paused = [a \in Arms |-> FALSE]
  /\ connected = [a \in Arms |-> TRUE]
  /\ arm = [a \in Arms |-> 1]
  /\ joints = [a \in Arms |-> ReadJointsOk(a, FullRead(Tenth \div 4))]
  /\ lock = [a \in Arms |-> "free"]
  /\ nbus = [a \in Arms |-> 1]
  /\ open = [a \in Arms |-> {1}]
  /\ pc = [a \in Arms |-> [t \in Threads |-> IF t = "loop" THEN "sleep" ELSE "idle"]]
  /\ tbus = [a \in Arms |-> [t \in Threads |-> NoBus]]
  /\ ret = [a \in Arms |-> [t \in Threads |-> "idle"]]
  /\ lres = [a \in Arms |-> NoJoints]
  /\ sconn = [a \in Arms |-> FALSE]
  /\ status = [a \in Arms |-> <<>>]
  /\ quiet = [a \in Arms |-> FALSE]
  /\ quietCall = [a \in Arms |-> FALSE]

ProcSpecInit == ConnectedInit /\ MoveInit /\ ProcInit /\ PortsInit /\ ApiInit /\ ObsInit /\ cal = FAKE_CAL

SpecProc == ProcSpecInit /\ [][ProcNext]_vars

\* Both poll loops alone, from construction.
LoopsNext == \E a \in Arms : LoopStep(a) /\ UNCHANGED <<moveVars, procVars, portVars, apiVars, obsVars>>

SpecLoops == MonInit /\ [][LoopsNext]_vars

\* The slot that holds the follower monitor ArmDriver.__init__ made.
FirstFollower == IF gen["follower"] = 0 THEN "follower" ELSE Old("follower")

\* Port reconfiguration: one handler of POST /config/ports, stop() as it
\* calls it, and the poll thread of the first follower monitor, before and
\* after set_ports retires that object.
PortsNext ==
  \/ PortsStep("s1", PortRequests) /\ UNCHANGED <<moveVars, procVars, apiVars, obsVars>>
  \/ \E a \in Arms : StopStep(a) /\ UNCHANGED <<moveVars, procVars, portVars, apiVars, obsVars>>
  \/ \E a \in Arms : CtlDisconnect(a) /\ UNCHANGED <<moveVars, procVars, portVars, apiVars, obsVars>>
  \/ LoopStep(FirstFollower) /\ UNCHANGED <<moveVars, procVars, portVars, apiVars, obsVars>>

PortsSpecInit ==
  MonitorSlotsInit /\ MoveInit /\ ProcInit /\ PortsInit /\ ApiInit /\ ObsInit /\ cal = FAKE_CAL

SpecPorts == PortsSpecInit /\ [][PortsNext]_vars

\* The monitors of ArmDriver.__init__, both connected and between two
\* polls, with an unused slot for the object each role will retire.
ConnectedSlotsInit ==
  /\ running = [a \in Mons |-> a \in Arms]
  /\ paused = [a \in Mons |-> FALSE]
  /\ connected = [a \in Mons |-> a \in Arms]
  /\ arm = [a \in Mons |-> IF a \in Arms THEN 1 ELSE NoBus]
  /\ joints = [a \in Mons |->
               IF a \in Arms THEN ReadJointsOk(a, FullRead(Tenth \div 4)) ELSE EmptyJoints]
  /\ lock = [a \in Mons |-> "free"]
  /\ nbus = [a \in Mons |-> IF a \in Arms THEN 1 ELSE 0]
  /\ open = [a \in Mons |-> IF a \in Arms THEN {1} ELSE {}]
  /\ pc = [a \in Mons |->
           [t \in Threads |-> IF t # "loop" THEN "idle" ELSE IF a \in Arms THEN "sleep" ELSE "exit"]]
  /\ tbus = [a \in Mons |-> [t \in Threads |-> NoBus]]
  /\ ret = [a \in Mons |-> [t \in Threads |-> "idle"]]
  /\ lres = [a \in Mons |-> NoJoints]
  /\ sconn = [a \in Mons |-> FALSE]
  /\ status = [a \in Mons |-> <<>>]
  /\ quiet = [a \in Mons |-> FALSE]
  /\ quietCall = [a \in Mons |-> FALSE]

\* Port reconfiguration by two handlers of POST /config/ports at once, with
\* stop() as they call it, on two connected monitors whose poll threads
\* are asleep.  A request moves the leader alone, moves the follower alone,
\* swaps the two ports, or names one port twice.
PairRequests ==
  {PortConfig("/dev/ttyUSB0", "/dev/ttyACM1"), PortConfig("/dev/ttyACM0", "/dev/ttyUSB0"),
   PortConfig("/dev/ttyACM1", "/dev/ttyACM0"), PortConfig("/dev/ttyUSB0", "/dev/ttyUSB0")}

PortsPairNext ==
  \/ \E s \in Setters : PortsStep(s, PairRequests) /\ UNCHANGED <<moveVars, procVars, apiVars, obsVars>>
  \/ \E a \in Arms : StopStep(a) /\ UNCHANGED <<moveVars, procVars, portVars, apiVars, obsVars>>
  \/ \E a \in Arms : CtlDisconnect(a) /\ UNCHANGED <<moveVars, procVars, portVars, apiVars, obsVars>>

PortsPairInit ==
  ConnectedSlotsInit /\ MoveInit /\ ProcInit /\ PortsInit /\ ApiInit /\ ObsInit /\ cal = FAKE_CAL

SpecPortsPair == PortsPairInit /\ [][PortsPairNext]_vars

\* The angles of the clamp checks: far outside every range, inside every
\* range, and each bound of the test calibration with its two neighbours.
ClampAngles ==
  {Deg(-200), Deg(30), Deg(200)}
    \cup UNION {{l.lo - 1, l.lo, l.hi, l.hi + 1} :
                  l \in {GetJointLimits(FAKE_CAL)[n] : n \in JointSet}}
ClampRequests == {Req(j, a, 30, 10) : j \in JointSet, a \in ClampAngles}

\* The joint-move handler alone on a connected follower, for every joint,
\* angle and calibration of the clamp checks.
ClampNext ==
  MoveStep("m1", ClampRequests, {FullRead(0)}) /\ UNCHANGED <<portVars, apiVars, obsVars>>

ClampSpecInit ==
  ConnectedInit /\ MoveInit /\ ProcInit /\ PortsInit /\ ApiInit /\ ObsInit /\ cal \in Calibrations

SpecClamp == ClampSpecInit /\ [][ClampNext]_vars

\* What sync_read("Present_Position") returns on motors that are where
\* they were last sent.
RegisterRead == [n \in JointSet |-> Some(gpos[n])]

\* A Goal_Position write of handler m that returns has reached the motors.
WriteLands(m) ==
  gpos' = IF mpc[m] = "wp_call" /\ mpc'[m] = "tq_go"
            THEN [n \in JointSet |-> mgoal[m][n]]
            ELSE gpos

\* Two requests of the interface: one joint each, inside its range.
PairMoveRequests ==
  {Req("shoulder_pan", Deg(30), 30, 10), Req("gripper", Deg(80), 30, 10)}

\* Two handlers of POST /arm/follower/move at once on a connected follower
\* whose poll thread is asleep.
MovePairNext ==
  \E m \in Movers :
    /\ MoveStep(m, PairMoveRequests, {RegisterRead})
    /\ WriteLands(m)
    /\ UNCHANGED <<portVars, apiVars, busObsVars, snapObsVars, avail>>

SpecMovePair == ClampSpecInit /\ [][MovePairNext]_vars

\* The poll thread of a monitor whose connect and read succeed while the
\* port answers and raise while it does not; a read on a bus object another
\* thread has disconnected raises too, and disconnect can end either way.
LiveLoopStep(a) ==
  \/ avail /\ (ConnectOk(a) \/ ReadOk(a))
  \/ ~avail /\ ConnectFail(a)
  \/ (~avail \/ tbus[a]["loop"] \notin open[a]) /\ ReadFail(a)
  \/ DisconnectOk(a, "loop") \/ DisconnectRaise(a, "loop")
  \/ ~InBusCall(a, "loop") /\ LoopStep(a)

\* The cable is pulled, the device loses power.
BusFails == avail /\ avail' = FALSE

\* The device is back.
BusRecovers == ~avail /\ avail' = TRUE

\* What is left alone by the steps of the monitor's threads, and by the port.
LiveFrame == <<moveVars, procVars, portVars, apiVars, busObsVars, snapObsVars, gpos>>

\* The follower monitor with a port that comes and goes: the steps of its
\* poll thread, those of a thread inside pause() or stop(), and the callers
\* of pause(), resume() and stop().
LiveLoop == LiveLoopStep("follower") /\ UNCHANGED <<LiveFrame, avail>>
LiveCtl == CtlStep("follower") /\ UNCHANGED <<LiveFrame, avail>>

LiveNext ==
  \/ LiveLoop
  \/ LiveCtl
  \/ CallPause("follower") /\ UNCHANGED <<LiveFrame, avail>>
  \/ CallResume("follower") /\ UNCHANGED <<LiveFrame, avail>>
  \/ CallStop("follower") /\ UNCHANGED <<LiveFrame, avail>>
  \/ BusFails /\ UNCHANGED <<LiveFrame, monVars>>
  \/ BusRecovers /\ UNCHANGED <<LiveFrame, monVars>>

\* The poll thread is a started daemon thread and time.sleep returns: it
\* keeps taking steps.  A thread inside pause() or stop() runs on to the
\* end of the call.
LiveFairness ==
  /\ WF_vars(LiveLoop)
  /\ WF_vars(LiveCtl)

SpecLive == MonInit /\ [][LiveNext]_vars /\ LiveFairness

\* Calibration files for one rotational joint with every calibrated width,
\* and the file of the test suite.
OneJointCal(j, d) == [n \in {j} |-> [range_min |-> 0, range_max |-> d]]
CalSweep == {OneJointCal("elbow_flex", d) : d \in 0..MAX_RES} \cup {FAKE_CAL}
\* The slider bounds the interface was given become the angles it requests.
CalRequests ==
  IF calout = NoCalibration THEN {}
  ELSE UNION {{Req(j, calout[j].min, 30, 10), Req(j, calout[j].max, 30, 10)} :
                j \in DOMAIN calout}

\* The calibration query and one move handler, with the monitors connected.
CalNext ==
  \/ CalibrationQuery
  \/ MoveStep("m1", CalRequests, {FullRead(0)}) /\ UNCHANGED <<portVars, apiVars, obsVars>>
CalSpecInit ==
  ConnectedInit /\ MoveInit /\ ProcInit /\ PortsInit /\ ApiInit /\ ObsInit /\ cal \in CalSweep
SpecCal == CalSpecInit /\ [][CalNext]_vars

\* Every speed percent of the interface's range, and one and two above it.
SpeedSweep == 0..101
SpeedRequests == {Req("gripper", Deg(30), sp, 10) : sp \in SpeedSweep}

\* One move handler with the monitors connected, over every speed.
SpeedNext ==
  MoveStep("m1", SpeedRequests, {FullRead(0)}) /\ UNCHANGED <<portVars, apiVars, obsVars>>
SpeedSpecInit ==
  ConnectedInit /\ MoveInit /\ ProcInit /\ PortsInit /\ ApiInit /\ ObsInit /\ cal = FAKE_CAL
SpecSpeed == SpeedSpecInit /\ [][SpeedNext]_vars

\* The driver's move, home and stop beside the follower's poll loop, which
\* takes the follower through its connection states.
StubsNext ==
  \/ LoopStep("follower") /\ UNCHANGED <<moveVars, procVars, portVars, apiVars, obsVars>>
  \/ ArmMove
  \/ ArmHome
  \/ ArmStop
SpecStubs == MonInit /\ [][StubsNext]_vars

\* The poll thread of a monitor with its bus calls noted.
ObsLoopStep(a) ==
  \/ (ConnectOk(a) \/ ReadOk(a) \/ DisconnectOk(a, "loop")) /\ ObserveBus(a, "loop", "ok")
  \/ (ConnectFail(a) \/ ReadFail(a) \/ DisconnectRaise(a, "loop"))
       /\ ObserveBus(a, "loop", "raised")
  \/ ~InBusCall(a, "loop") /\ LoopStep(a) /\ ObserveBus(a, "loop", "none")

\* A caller of pause() or stop() with its bus calls noted.
ObsCtlStep(a) ==
  \/ DisconnectOk(a, "ctl") /\ ObserveBus(a, "ctl", "ok")
  \/ DisconnectRaise(a, "ctl") /\ ObserveBus(a, "ctl", "raised")
  \/ ~InBusCall(a, "ctl") /\ (CtlStep(a) \/ CallPause(a) \/ CallStop(a))
       /\ ObserveBus(a, "ctl", "none")

\* The follower monitor as in SpecMon, with every bus call it makes noted.
ObsNext ==
  \/ ObsLoopStep("follower")
       /\ UNCHANGED <<moveVars, procVars, portVars, apiVars, snapObsVars, envVars>>
  \/ ObsCtlStep("follower")
       /\ UNCHANGED <<moveVars, procVars, portVars, apiVars, snapObsVars, envVars>>
  \/ CallResume("follower")
       /\ UNCHANGED <<moveVars, procVars, portVars, apiVars, obsVars>>
SpecObs == MonInit /\ [][ObsNext]_vars

\* The follower monitor with callers of pause(), resume() and of
\* ArmDriver.get_status(), with the published maps noted.
SnapNext ==
  \/ LoopStep("follower") /\ ObserveSnap("follower", "loop")
       /\ UNCHANGED <<moveVars, procVars, portVars, apiVars, busObsVars, envVars>>
  \/ (PauseStep("follower") \/ CtlDisconnect("follower") \/ CallPause("follower")
        \/ CallResume("follower"))
       /\ ObserveSnap("follower", "ctl")
       /\ UNCHANGED <<moveVars, procVars, portVars, apiVars, busObsVars, envVars>>
  \/ StatusStep("follower") /\ ObserveSnap("follower", "status")
       /\ UNCHANGED <<moveVars, procVars, portVars, apiVars, busObsVars, envVars>>
SpecSnap == MonInit /\ [][SnapNext]_vars

\* The state SpecProc starts in is one the poll loops reach.
NotYetConnected == ~ConnectedInit

\* ================================================================ claims

IsCall(e, op, reg) == e.op = op /\ e.reg = reg

\* C1: in the log of every move request, enable_torque appears only after a
\* sync_write(Goal_Position) of that request that returned, and never after
\* a call of that request that raised.
C1_TorqueOnlyAfterPosition ==
  \A m \in Movers : \A i \in 1..Len(mlog[m]) :
    mlog[m][i].op = "enable_torque" =>
      /\ \E j \in 1..(i - 1) :
           IsCall(mlog[m][j], "sync_write", "Goal_Position") /\ mlog[m][j].st = "ok"
      /\ \A j \in 1..(i - 1) : mlog[m][j].st = "ok"

\* C1 witness: a request has entered enable_torque.
C1_Witness ==
  \E m \in Movers : mpc[m] = "tq_call" /\ mlog[m][Len(mlog[m])].op = "enable_torque"

\* The calls of a successful move, in order.
ExpectedCalls ==
  << <<"sync_read", "Present_Position">>, <<"sync_write", "Goal_Velocity">>,
     <<"sync_write", "Acceleration">>, <<"sync_write", "Goal_Position">>,
     <<"enable_torque", "">> >>

CallShape(log) == [i \in 1..Len(log) |-> <<log[i].op, log[i].reg>>]

SawOffline(m) ==
  /\ msaw[m] # <<>>
  /\ \/ ~msaw[m][1]
     \/ Len(msaw[m]) = 2 /\ ~msaw[m][2]

\* C3: a request whose guard finds the follower not connected (flag false or
\* no bus handle) makes no bus call and ends with the 503 error.
C3_OfflineNoBusCalls ==
  \A m \in Movers :
    SawOffline(m) => mlog[m] = <<>> /\ mpc[m] = "done" /\ mout[m] = HttpError(503)

\* C3 witness: a request was refused by the guard.
C3_Witness == \E m \in Movers : SawOffline(m) /\ mpc[m] = "done"

\* The requested angle brought into [lo, hi] when the joint has limits.
ClampedTarget(m) ==
  LET limits == GetJointLimits(cal)
      j == mreq[m].joint
      a == mreq[m].angle
  IN  IF j \notin DOMAIN limits THEN a
      ELSE IF a < limits[j].lo THEN limits[j].lo
      ELSE IF a > limits[j].hi THEN limits[j].hi
      ELSE a

\* C4: every Goal_Position write of a request carries all six joints, the
\* clamped requested angle for the target joint and, for every other joint,
\* the position the request's own sync_read returned.
C4_FullMapWrite ==
  \A m \in Movers : \A i \in 1..Len(mlog[m]) :
    IsCall(mlog[m][i], "sync_write", "Goal_Position") =>
      LET vals == mlog[m][i].vals
          read == mlog[m][1]
      IN  /\ JointSet \subseteq DOMAIN vals
          /\ mreq[m].joint \in DOMAIN vals
          /\ vals[mreq[m].joint] = ClampedTarget(m)
          /\ IsCall(read, "sync_read", "Present_Position")
          /\ \A n \in JointSet \ {mreq[m].joint} : Some(vals[n]) = read.res[n]

\* C4 witness: a Goal_Position write was issued for a clamped target.
C4_Witness ==
  \E m \in Movers :
    /\ mpc[m] = "wp_call"
    /\ mreq[m].joint \in JointSet
    /\ mangle[m] # mreq[m].angle

\* C8: no bus call of a move request is in progress while the poll loop,
\* pause() or stop() is inside a call on the same bus object.
C8_NoSimultaneousBusAccess ==
  \A m \in Movers :
    mpc[m] \in MoveCallLabels =>
      \A t \in {"loop", "ctl"} :
        ~(InBusCall("follower", t) /\ tbus["follower"][t] = mbus[m])

\* C10: a monitor whose connected flag is true holds a bus handle.
C10_ConnectedImpliesHandle == \A a \in Arms : connected[a] => arm[a] # NoBus

\* C9: a status snapshot that reports connected = false carries the
\* all-None joints map.
C9_DisconnectedSnapshotEmpty ==
  \A a \in Arms :
    status[a] # <<>> => (~status[a][1].connected => status[a][1].joints = EmptyJoints)

\* C6: between the return of pause() and the next resume() the monitor holds
\* no bus handle and its loop begins no bus call.
C6_PausedMonitorOffBus == \A a \in Arms : quiet[a] => arm[a] = NoBus /\ ~quietCall[a]

AnyProcessRunning == \E k \in Managers : alive[k] # {}

\* C5: while a managed process is running, both monitors are paused and
\* neither holds a bus handle.
C5_MonitorsYieldWhileProcessRuns ==
  AnyProcessRunning => \A a \in Arms : paused[a] /\ arm[a] = NoBus

\* Every managed process has ended and no thread of the process manager has
\* a step left to take.
ManagerQuiescent ==
  /\ hpc = "idle"
  /\ \A a \in Arms : At(a, "ctl", "idle")
  /\ \A k \in Managers : alive[k] = {}
  /\ \A k \in Managers, i \in ProcIds : dpc[k][i] \in {"none", "end"}

\* C7: once every managed process has ended and every handler and drain
\* thread has run to its end, resume_all has been called since the last
\* process ended.
C7_ResumeAfterEveryExit == ManagerQuiescent => ~owed

\* C11: once set_ports has started the replacement of a role's monitor, the
\* old monitor's loop is in no bus call and the old monitor holds no open
\* bus.
C11_OldMonitorQuietOnceReplaced ==
  \A a \in Arms :
    (gen[a] > 0 /\ running[a]) =>
      /\ ~InBusCall(Old(a), "loop")
      /\ arm[Old(a)] \notin open[Old(a)]

\* C12: a monitor on which stop() has returned holds no open bus.
C12_StoppedMonitorHoldsNoBus ==
  \A a \in Arms : (~running[a] /\ At(a, "ctl", "idle")) => arm[a] \notin open[a]

\* The events of a request that concern one role.
RoleEvents(s, a) ==
  LET OfRole(e) == e.role = a
  IN  SelectSeq(slog[s], OfRole)

PortChanged(s, a) == spre[s][a].port # PortOf(sreq[s], a)

\* C13: for a role whose requested port differs from its monitor's port the
\* request stops the old monitor once, then constructs the new monitor on
\* the new port, then starts it, and nothing else; for a role whose port is
\* unchanged it does nothing and the monitor object is kept.
C13_PortSwapHygiene ==
  \A s \in Setters : \A a \in Arms :
    LET ev == RoleEvents(s, a)
        pre == spre[s][a]
    IN  /\ Len(ev) <= 3
        /\ Len(ev) >= 1 => PortChanged(s, a) /\ ev[1] = StopEvent(a, pre.inst)
        /\ Len(ev) >= 2 =>
             ev[2].ev = "new" /\ ev[2].inst # pre.inst /\ ev[2].port = PortOf(sreq[s], a)
        /\ Len(ev) >= 3 => ev[3] = StartEvent(a, ev[2].inst)
        /\ (spc[s] = "done" /\ sout[s].code = 200) =>
             IF PortChanged(s, a)
               THEN Len(ev) = 3 /\ inst[a] = ev[2].inst /\ port[a] = PortOf(sreq[s], a)
               ELSE Len(ev) = 0 /\ inst[a] = pre.inst /\ port[a] = pre.port

\* C13 witness: a request that changed the leader's port and kept the
\* follower's has returned.
C13_Witness ==
  \E s \in Setters :
    /\ spc[s] = "done" /\ sout[s].code = 200
    /\ PortChanged(s, "leader") /\ ~PortChanged(s, "follower")

\* The Goal_Position writes in the log of a request.
PositionWrites(m) ==
  {i \in 1..Len(mlog[m]) : IsCall(mlog[m][i], "sync_write", "Goal_Position")}

\* C14: the value written to Goal_Position for the target joint is the
\* nearest bound when the requested angle is outside the joint's limits and
\* the requested angle itself when it is at or inside them; the result
\* reports clamped = true exactly when the written value differs from the
\* request.
C14_ClampToNearestBound ==
  \A m \in Movers : \A i \in PositionWrites(m) :
    LET limits == GetJointLimits(cal)
        j == mreq[m].joint
        a == mreq[m].angle
        w == mlog[m][i].vals[j]
    IN  /\ j \in DOMAIN limits =>
             /\ a < limits[j].lo => w = limits[j].lo
             /\ a > limits[j].hi => w = limits[j].hi
             /\ (limits[j].lo <= a /\ a <= limits[j].hi) => w = a
        /\ mout[m].code = 200 => (mout[m].clamped <=> w # a) /\ mout[m].angle = w

\* C14 witness: a request below the lower bound has returned with the
\* clamped flag set.
C14_Witness ==
  \E m \in Movers :
    /\ mpc[m] = "done" /\ mout[m].code = 200
    /\ mout[m].clamped /\ mreq[m].angle < mout[m].angle

\* The calibration of the scenario: range_min = 943, range_max = 3337.
ScenarioJoint(m) ==
  /\ mreq[m].joint \in DOMAIN cal
  /\ mreq[m].joint # "gripper"
  /\ cal[mreq[m].joint] = [range_min |-> 943, range_max |-> 3337]

ScenarioHalf == (3337 - 943) * ((360 * Unit) \div (2 * MAX_RES))

C16_ReportedLimitsWithinClampLimits ==
  /\ calout # NoCalibration =>
       \A j \in DOMAIN calout :
         /\ GetJointLimits(cal)[j].lo <= calout[j].min
         /\ calout[j].max <= GetJointLimits(cal)[j].hi
  /\ \A m \in Movers : \A i \in PositionWrites(m) :
       mlog[m][i].vals[mreq[m].joint] = mreq[m].angle
  /\ \A m \in Movers : mout[m].code = 200 => ~mout[m].clamped

\* The Goal_Velocity writes in the log of a request.
VelocityWrites(m) ==
  {i \in 1..Len(mlog[m]) : IsCall(mlog[m][i], "sync_write", "Goal_Velocity")}

\* C17: the goal velocity grows with the speed percent: the value commanded
\* for a speed s in 0..99 is at least the value the handler computes for
\* every lower percent, lies between 50 and 2000, and is 50 for speed 0.
C17_SpeedMonotone ==
  \A m \in Movers : \A i \in VelocityWrites(m) : \A n \in BusMotors :
    LET sp == mreq[m].speed
        v == mlog[m][i].vals[n]
    IN  sp \in 0..99 =>
          /\ \A s1 \in 0..(sp - 1) : SpeedToGoalVelocity(s1) <= v
          /\ 50 <= v /\ v <= 2000
          /\ sp = 0 => v = 50

NotImplementedTexts ==
  {"Move not implemented in monitor mode", "Home not implemented in monitor mode",
   "Not implemented"}

\* C19: whatever the follower's connection state, the result of the driver's
\* stop, home or bulk move has ok = false with a "not implemented" message,
\* and the operation has made no bus call.
C19_StubsReportNotImplemented ==
  dout # NoResponse =>
    /\ ~dout.ok
    /\ dout.text \in NotImplementedTexts
    /\ dlog = <<>>

\* A request whose two ports are the same is in the hands of handler s.
SamePorts(s) ==
  /\ sreq[s] # NoRequest
  /\ sreq[s].leader_port = sreq[s].follower_port

\* C20: a request with identical leader and follower ports is rejected
\* before anything is touched: the handler goes from the comparison straight
\* to its end with HTTP 400, the configuration and both monitors (object,
\* port, no stop() in progress) are as the request found them, and the
\* handler has stopped, constructed and started nothing.
C20_SamePortsRejectedUntouched ==
  \A s \in Setters :
    SamePorts(s) =>
      /\ spc[s] \in {"chk", "done"}
      /\ spc[s] = "done" => sout[s] = HttpError(400)
      /\ slog[s] = <<>>
      /\ \A a \in Arms :
           /\ PortOf(config, a) = spre[s][a].cfg
           /\ port[a] = spre[s][a].port
           /\ inst[a] = spre[s][a].inst
           /\ At(a, "ctl", "idle")

\* C20 witness: a request with identical ports has been answered with 400
\* after an earlier request moved a monitor to another port.
C20_Witness ==
  \E s \in Setters :
    /\ SamePorts(s)
    /\ spc[s] = "done" /\ sout[s] = HttpError(400)
    /\ \E a \in Arms : gen[a] > 0

\* The calls the read-only monitor is allowed on its bus.
ConnectCall == MonCall("connect", "handshake=True")
ReadCall == MonCall("sync_read", "Present_Position")
DisconnectCall == MonCall("disconnect", "disable_torque=False")

\* C21: a _connect that succeeded has called bus.connect once, with
\* handshake=True, and nothing else; and whatever the monitor has been asked
\* to do, every call it ever made on its bus is a connect, a sync_read or a
\* disconnect (no sync_write, enable_torque, disable_torque or configure).
C21_ConnectPurity ==
  \A a \in Arms :
    /\ pc[a]["loop"] \in {"conn_setarm", "conn_setconn"} =>
         blog[a]["loop"] = <<ConnectCall>> /\ bout[a]["loop"] = "ok"
    /\ \A c \in bever[a] : c.op \in {"connect", "sync_read", "disconnect"}
    /\ \A c \in bever[a] : c.op = "connect" => c = ConnectCall

\* C21 witness: a monitor that was paused and resumed has connected again.
C21_Witness ==
  \E a \in Arms :
    /\ At(a, "loop", "conn_setconn")
    /\ DisconnectCall \in bever[a] /\ ReadCall \in bever[a]
    /\ nbus[a] > 1

\* The labels of _disconnect.
DisconnectLabels == {"d_chk", "d_get", "d_call", "d_clear"}

\* C22, the calls: every disconnect the monitor has made has
\* disable_torque=False, a _disconnect makes at most that one call, and no
\* torque call is ever made.
C22_DisconnectCalls ==
  \A a \in Arms :
    /\ \A c \in bever[a] : c.op = "disconnect" => c = DisconnectCall
    /\ \A c \in bever[a] : c.op \notin {"enable_torque", "disable_torque"}
    /\ \A t \in {"loop", "ctl"} :
         pc[a][t] \in DisconnectLabels => blog[a][t] \in {<<>>, <<DisconnectCall>>}

\* C22, the return: the step by which a thread leaves _disconnect sets the
\* bus reference to None and goes on in the caller, also after
\* bus.disconnect raised.
C22_DisconnectReturns ==
  \A a \in Arms : \A t \in {"loop", "ctl"} :
    (pc[a][t] \in DisconnectLabels /\ pc'[a][t] \notin DisconnectLabels) =>
      arm'[a] = NoBus /\ pc'[a][t] = ret[a][t]

\* C22: every disconnect is made with disable_torque = False and without a
\* torque call, and when _disconnect returns the bus reference is None and
\* the caller goes on, also when bus.disconnect raised.
C22_DisconnectPurity == []C22_DisconnectCalls /\ [][C22_DisconnectReturns]_vars

\* C22 witness: pause() goes on after a bus.disconnect that raised.
C22_Witness ==
  \E a \in Arms :
    /\ At(a, "ctl", "p_lock")
    /\ blog[a]["ctl"] = <<DisconnectCall>> /\ bout[a]["ctl"] = "raised"
    /\ arm[a] = NoBus

\* C23: when _read_joints returns it has made one sync_read of
\* Present_Position and no other call if it had a bus handle, and no call
\* otherwise; a map it returns has all six joints; and when the read raised
\* or there was no handle it returns None, whatever is stored.
C23_ReadPurity ==
  \A a \in Arms :
    At(a, "loop", "after_read") =>
      /\ blog[a]["loop"] \in {<<>>, <<ReadCall>>}
      /\ lres[a] # NoJoints =>
           /\ blog[a]["loop"] = <<ReadCall>> /\ bout[a]["loop"] = "ok"
           /\ DOMAIN lres[a] = JointSet
      /\ (bout[a]["loop"] = "raised" \/ blog[a]["loop"] = <<>>) => lres[a] = NoJoints

\* C23 witness: a read raised while a map with positions is stored.
C23_Witness ==
  \E a \in Arms :
    /\ At(a, "loop", "after_read")
    /\ bout[a]["loop"] = "raised"
    /\ joints[a] # EmptyJoints

\* C24: every snapshot get_status has returned, also one taken while the
\* poll loop publishes or pause() clears the map, has all six joint keys and
\* is one whole map of those the monitor has stored.
C24_SnapshotWhole ==
  \A a \in Arms :
    status[a] # <<>> =>
      /\ DOMAIN status[a][1].joints = JointSet
      /\ status[a][1].joints \in pub[a]

\* C24 witness: a snapshot with positions was returned and pause() has
\* cleared the stored map since, while the loop has a new map to publish.
C24_Witness ==
  \E a \in Arms :
    /\ status[a] # <<>>
    /\ status[a][1].joints # EmptyJoints
    /\ joints[a] = EmptyJoints
    /\ At(a, "loop", "publish")

\* C27: what ArmDriver.get_status() returned is the follower snapshot of the
\* same call under the single-arm shape: same connected flag, same joints
\* map, and the message is "OK" exactly when connected is true.
C27_LegacyStatusIsProjection ==
  lout # <<>> =>
    /\ status["follower"] # <<>>
    /\ lout[1].connected = status["follower"][1].connected
    /\ lout[1].joints = status["follower"][1].joints
    /\ lout[1].message = "OK" <=> lout[1].connected

\* C27 witness: a legacy status that says not connected was returned while
\* the monitor is connected again.
C27_Witness ==
  /\ lout # <<>>
  /\ ~lout[1].connected /\ lout[1].message = "Arm not connected"
  /\ connected["follower"]

\* The sync_write calls in the log of a request.
SyncWrites(m) == {i \in 1..Len(mlog[m]) : mlog[m][i].op = "sync_write"}

TicksPerStep == (180 * Unit) \div 4095

\* Twice the distance of x from y.
TwiceDistance(x, y) == IF x >= y THEN 2 * (x - y) ELSE 2 * (y - x)

\* C26: the calibration query reports (0, 100) for the gripper and, for a
\* rotational joint, (-h, +h) with h the multiple of 0.1 degree nearest to
\* (range_max - range_min) / 2 * 360 / 4095: symmetric about 0, at most 180,
\* (-105.2, 105.2) for 943..3337 and (-180.0, 180.0) for 0..4095.
C26_CalibrationLimits ==
  calout # NoCalibration =>
    /\ DOMAIN calout = DOMAIN cal
    /\ \A j \in DOMAIN calout :
         LET width == cal[j].range_max - cal[j].range_min
             lim == calout[j]
         IN  IF j = "gripper"
               THEN lim.min = Deg(0) /\ lim.max = Deg(100)
               ELSE /\ lim.min = -lim.max
                    /\ lim.max % Tenth = 0
                    /\ TwiceDistance(lim.max, width * TicksPerStep) <= Tenth
                    /\ lim.max <= Deg(180)
                    /\ (cal[j].range_min = 943 /\ cal[j].range_max = 3337) =>
                         lim.max = 1052 * Tenth
                    /\ (cal[j].range_min = 0 /\ cal[j].range_max = 4095) =>
                         lim.max = 1800 * Tenth

\* C26 witness: the query has answered for the calibration of the test
\* suite, which holds the ranges 943..3337 and 0..4095.
C26_Witness ==
  /\ calout # NoCalibration
  /\ cal = FAKE_CAL
  /\ calout["shoulder_pan"].min = -1052 * Tenth
  /\ calout["wrist_roll"].max = 1800 * Tenth

\* The labels at which the next step of a monitor thread reads or writes
\* self._connected or self._joints.
PairAccessLabels ==
  {"chk_conn", "conn_setconn", "conn_fail_conn", "after_read", "fail_write",
   "publish_write", "p_write", "st_conn", "st_joints"}

\* C28: a thread that is about to read or write the connected flag or the
\* joints snapshot of a monitor holds that monitor's lock; so does a move
\* handler at its offline guard.
C28_PairOnlyUnderLock ==
  /\ \A a \in Arms : \A t \in Threads :
       (pc[a][t] \in PairAccessLabels /\ ~(pc[a][t] = "after_read" /\ lres[a] # NoJoints))
         => lock[a] = t
  /\ \A m \in Movers : mpc[m] = "g_conn" => lock["follower"] = m

\* The labels inside a `with self._lock:` block.
CriticalLabels == {"fail_write", "publish_write", "p_write", "st_conn", "st_joints"}

C30_AfterFailedRead ==
  \A a \in Arms :
    failed[a] =>
      /\ ~connected[a]
      /\ pc[a]["loop"] \in DisconnectLabels \cup {"fail_lock", "fail_write"} =>
           blog[a]["loop"] \in {<<>>, <<DisconnectCall>>}
      /\ pc[a]["loop"] \in {"fail_lock", "fail_write"} => arm[a] = NoBus
      /\ pc[a]["loop"] \in {"sleep", "top", "chk_paused", "chk_conn", "exit"} =>
           joints[a] = EmptyJoints

\* C30, the next tick: when the loop, not paused, tests the flag after a
\* failed read it enters bus.connect on a new bus object.
C30_Reconnects ==
  \A a \in Arms :
    (failed[a] /\ At(a, "loop", "chk_conn") /\ pc'[a]["loop"] # "chk_conn") =>
      /\ pc'[a]["loop"] = "conn_call"
      /\ nbus'[a] = nbus[a] + 1
      /\ tbus'[a]["loop"] = nbus'[a]

LastCallRaised(m) == mlog[m] # <<>> /\ mlog[m][Len(mlog[m])].st = "raised"

\* C34, the error: a request whose bus call raised is ended with 500 and has
\* made no call after the one that raised.
C34_RaiseIsActuationError ==
  \A m \in Movers : LastCallRaised(m) => mpc[m] = "done" /\ mout[m] = HttpError(500)

\* C34, the frame: no step of a move handler changes the follower monitor's
\* connected flag, snapshot, paused flag or bus handle.
C34_HandlerLeavesMonitor ==
  \A m \in Movers :
    mpc'[m] # mpc[m] =>
      /\ connected'["follower"] = connected["follower"]
      /\ joints'["follower"] = joints["follower"]
      /\ paused'["follower"] = paused["follower"]
      /\ arm'["follower"] = arm["follower"]

\* C34: a bus exception at any step of the move pipeline ends the request
\* with the actuation error 500, and the handler's steps leave the follower
\* monitor's connected flag, snapshot, paused flag and bus handle as they are.
C34_BusErrorLeavesMonitor == []C34_RaiseIsActuationError /\ [][C34_HandlerLeavesMonitor]_vars

\* C34 witness: the Goal_Position write of a request raised while the
\* monitor is connected and holds a snapshot with positions.
C34_Witness ==
  \E m \in Movers :
    /\ LastCallRaised(m)
    /\ IsCall(mlog[m][Len(mlog[m])], "sync_write", "Goal_Position")
    /\ connected["follower"] /\ arm["follower"] # NoBus
    /\ joints["follower"] # EmptyJoints

\* The request's sync_read returned without a position for some motor.
ReadMissedJoint(m) ==
  /\ mlog[m] # <<>>
  /\ mlog[m][1].st = "ok"
  /\ \E n \in BusMotors : mlog[m][1].res[n] = None

\* C35: a request whose sync_read returned no position for one of the bus's
\* joints has made no other bus call and ends with the error 500.
C35_MissingPositionStopsMove ==
  \A m \in Movers :
    ReadMissedJoint(m) =>
      /\ Len(mlog[m]) = 1
      /\ mpc[m] = "done"
      /\ mout[m] = HttpError(500)

\* C35 witness: a read without the position of wrist_roll was answered
\* with 500.
C35_Witness ==
  \E m \in Movers :
    /\ ReadMissedJoint(m)
    /\ mlog[m][1].res["wrist_roll"] = None
    /\ mout[m] = HttpError(500)

\* C36: the Acceleration write carries, for each of the six joints, the
\* requested acceleration brought into 0..254, the Goal_Velocity write one
\* value for each of the six joints, and the result names those two values.
C36_UniformVelocityAndAccel ==
  \A m \in Movers :
    LET a == mreq[m].acceleration
        want == IF a < 0 THEN 0 ELSE IF a > 254 THEN 254 ELSE a
    IN  /\ \A i \in 1..Len(mlog[m]) :
             /\ IsCall(mlog[m][i], "sync_write", "Acceleration") =>
                  mlog[m][i].vals = [n \in JointSet |-> want]
             /\ IsCall(mlog[m][i], "sync_write", "Goal_Velocity") =>
                  /\ DOMAIN mlog[m][i].vals = JointSet
                  /\ \A n1, n2 \in JointSet : mlog[m][i].vals[n1] = mlog[m][i].vals[n2]
        /\ mout[m].code = 200 =>
             /\ mout[m].acceleration = want
             /\ mlog[m][2].vals["gripper"] = mout[m].goal_velocity

\* C36 witness: requests with acceleration 300 at speed 100 and with
\* acceleration -5 are possible, and the first has returned 254.
C36_Witness ==
  \E m \in Movers :
    /\ mpc[m] = "done" /\ mout[m].code = 200
    /\ mreq[m].acceleration = 300 /\ mreq[m].speed = 100
    /\ mout[m].acceleration = 254

\* C37: the keys of every Goal_Position write are exactly the six joint
\* names, whatever joint the request names.
C37_PositionWriteKeys ==
  \A m \in Movers : \A i \in PositionWrites(m) : DOMAIN mlog[m][i].vals = JointSet

\* C38: when the calibration file is absent or has no entry for the
\* requested joint, the angle the handler goes on with, writes and returns
\* is the requested one, and clamped is false.
C38_NoLimitsNoClamp ==
  \A m \in Movers :
    (mreq[m] # <<>> /\ mreq[m].joint \notin DOMAIN cal) =>
      /\ mpc[m] \notin {"g_conn", "g_arm", "clamp"} /\ mout[m].code # 503 =>
           mangle[m] = mreq[m].angle
      /\ \A i \in PositionWrites(m) : mlog[m][i].vals[mreq[m].joint] = mreq[m].angle
      /\ mout[m].code = 200 => ~mout[m].clamped /\ mout[m].angle = mreq[m].angle

\* C38 witness: without a calibration file a move to 200 degrees has
\* returned, and so has one for a joint a file has no entry for.
C38_Witness ==
  \E m \in Movers :
    /\ mpc[m] = "done" /\ mout[m].code = 200
    /\ mreq[m].angle = Deg(200)
    /\ cal = NoCal \/ (cal # NoCal /\ mreq[m].joint \notin DOMAIN cal)

\* No handler of POST /config/ports is at work.
SettersQuiescent == \A s \in Setters : spc[s] \in {"idle", "done"}

\* C39: whenever no port reconfiguration request is in progress, the leader
\* and the follower monitor are on different ports and each monitor's port
\* is the one RuntimeConfig names for its role.
C39_PortsSettled ==
  SettersQuiescent =>
    /\ port["leader"] # port["follower"]
    /\ \A a \in Arms : port[a] = PortOf(config, a)

\* pause() returns on a monitor on which an earlier pause() had returned
\* with no resume() or stop() in between.
SecondPauseReturns(a) == quiet[a] /\ At(a, "ctl", "p_write") /\ pc'[a]["ctl"] = "idle"

\* What pause() is to leave behind on a monitor that was already paused.
PausedAndReleased(a) ==
  /\ paused'[a]
  /\ ~connected'[a]
  /\ joints'[a] = EmptyJoints
  /\ arm'[a] = NoBus
  /\ blog'[a]["ctl"] = <<>>

\* C33: pause() on an already paused monitor returns with paused = true,
\* connected = false, the all-None snapshot and no bus handle, and has
\* issued no disconnect.
C33_PauseIdempotent ==
  [][\A a \in Arms : SecondPauseReturns(a) => PausedAndReleased(a)]_vars

\* Handler m is between its first bus call and its response.
InPipeline(m) == mlog[m] # <<>> /\ mpc[m] \notin {"idle", "done"}

\* Handler m has returned 200 for a move of one of the six joints.
MoveDone(m) == mpc[m] = "done" /\ mout[m].code = 200 /\ mreq[m].joint \in JointSet

\* Two requests for different joints have both returned 200.
BothMoved(m1, m2) == MoveDone(m1) /\ MoveDone(m2) /\ mreq[m1].joint # mreq[m2].joint

\* C40: two handlers of the joint move are never both between their first
\* bus call and their response, and when two requests for different joints
\* have both returned 200 each joint is still commanded to the angle its
\* request wrote.
C40_MovesDoNotInterleave ==
  \A m1, m2 \in Movers :
    m1 # m2 =>
      /\ ~(InPipeline(m1) /\ InPipeline(m2))
      /\ BothMoved(m1, m2) => gpos[mreq[m1].joint] = mangle[m1]

\* The poll thread of the follower has left its loop.
LoopEnded == At("follower", "loop", "exit")

\* The follower reports connected with a snapshot that has positions.
ReportsConnected == connected["follower"] /\ joints["follower"] # EmptyJoints

\* The follower can still build a bus object if it has to connect.
CanConnect == connected["follower"] \/ nbus["follower"] < MaxBus

\* The port answers and the monitor is running and not paused.
BusUsable == avail /\ running["follower"] /\ ~paused["follower"] /\ CanConnect

\* C31: the poll loop is left only when stop() has cleared the running flag,
\* whatever connect, read and disconnect failures came before, and if from
\* some moment on the port answers and the monitor is running and not
\* paused, the monitor comes to report connected = true with a snapshot
\* that has positions, and stays so.
C31_LoopRecovers ==
  /\ [](LoopEnded => ~running["follower"])
  /\ (<>[]BusUsable => <>[]ReportsConnected)

\* C31 witness: after a failed connect the port is back and the monitor
\* reports connected with positions.
C31_Witness ==
  /\ avail /\ nbus["follower"] = 2
  /\ running["follower"] /\ ~paused["follower"]
  /\ ReportsConnected

\* resume() takes effect on a paused monitor: the flag falls and no thread
\* of the monitor moves.
ResumeActs(a) == paused[a] /\ ~paused'[a] /\ pc'[a] = pc[a]

\* C32, the frame: the step of resume() begins and ends no bus call and
\* leaves connected, the snapshot and the bus handle as they are.
C32_ResumeFrame ==
  \A a \in Arms :
    ResumeActs(a) =>
      /\ connected'[a] = connected[a]
      /\ joints'[a] = joints[a]
      /\ arm'[a] = arm[a]
      /\ tbus'[a] = tbus[a] /\ nbus'[a] = nbus[a] /\ open'[a] = open[a]
      /\ running'[a] = running[a]

\* The follower's poll thread is inside _connect.
LoopConnecting ==
  pc["follower"]["loop"] \in
    {"conn_call", "conn_setarm", "conn_setconn", "conn_fail_arm", "conn_fail_conn"}

\* The follower is running, not paused and not connected.
AwaitsReconnect ==
  running["follower"] /\ ~paused["follower"] /\ ~connected["follower"]

\* C32: resume() only clears the paused flag, and a monitor that is
\* running, unpaused and not connected has its poll thread enter _connect,
\* unless it is paused or stopped first or no bus object is left to build.
C32_ResumeLeavesReconnectToLoop ==
  /\ [][C32_ResumeFrame]_vars
  /\ AwaitsReconnect ~>
       (LoopConnecting \/ paused["follower"] \/ ~running["follower"]
          \/ nbus["follower"] >= MaxBus)

\* C32 witness: pause() released a connected follower, resume() followed,
\* and the poll thread is in its second bus.connect.
C32_Witness ==
  /\ ret["follower"]["ctl"] = "p_lock" /\ At("follower", "ctl", "idle")
  /\ AwaitsReconnect
  /\ arm["follower"] = NoBus /\ open["follower"] = {}
  /\ At("follower", "loop", "conn_call") /\ nbus["follower"] = 2

====
